---- MODULE Spec2Model ----
(***************************************************************************)
(* Combat simulation layer of Shootmaster: the hostile-actor state machine *)
(* (NPCController) and its registry (NPCManager), src/client/game/         *)
(* NPCSystem.ts.                                                           *)
(*                                                                         *)
(* Numbers.  Coordinates, ranges, health and damage are integers.  The     *)
(* source compares Math.sqrt(dx*dx+dy*dy) with a range; for the integer    *)
(* coordinates and non-negative ranges used here that comparison is the    *)
(* comparison of dx*dx+dy*dy with the square of the range, and that is how *)
(* it is written below (getDistanceTo returns the squared distance).  The  *)
(* source's speeds are 1.5 and 2, so the field speed holds twice the       *)
(* source's value.  Time is Date.now() in milliseconds.  A move is         *)
(* computed exactly where the source rounds to the nearest double; with    *)
(* the inputs below every move runs along the x axis and every coordinate  *)
(* stays an integer.  The fields name and stateTransitionTime are written  *)
(* and never read by the source; they are left out.                        *)
(*                                                                         *)
(* Objects.  The source hands out object references.  A value that a call  *)
(* returns is modelled together with the identity of its mutable parts: a  *)
(* part is either "fresh" (a copy made by the call) or "internal" (the     *)
(* very object the controller holds).                                      *)
(*                                                                         *)
(* The weapon (GunController, GunFactory; src/client/game/                 *)
(* GunController.ts) and the player-state reducer (gameReducer; src/client/*)
(* game/GameState.tsx) are modelled further down, each with its own        *)
(* specification: SpecNPC and SpecRegistry leave the weapon and the player *)
(* state alone, SpecGun and SpecGame leave the registry alone.             *)
(***************************************************************************)
EXTENDS Integers, Sequences, FiniteSets, TLC

\* npcs: NPCManager.npcs, id -> the controller's npc record and lastUpdateTime
\* now: the clock Date.now() reads
\* lastCall: the operation performed last, with its arguments and its result
\* gun: the GunController (config, currentAmmo, isReloading, lastFireTime)
\* pending: the reload completions setTimeout has scheduled and not yet run
\* game: the GameState snapshot the reducer holds
\* lastShot: when fire() last returned true (history, None before the first)
\* issued: the ids of the fallback missions generated so far, in order (history)
VARIABLES npcs, now, lastCall, gun, pending, game, lastShot, issued

vars == <<npcs, now, lastCall>>

\* what the registry's operations leave alone
others == <<gun, pending, game, lastShot, issued>>

allVars == <<npcs, now, lastCall, gun, pending, game, lastShot, issued>>

\* ------------------------------------------------------------------ bounds
MaxTicks == 1

\* ------------------------------------------------------------------ inputs
GuardIds == {"g1"}

HostileIds == {"e1"}

Ids == GuardIds \cup HostileIds

\* milliseconds that pass between two readings of the clock
Deltas == {500}

Horizon == MaxTicks * 500

Pt(x, y) == [x |-> x, y |-> y]

None == <<>>

Some(v) == <<v>>

PlayerPositions ==
    {Pt(150, 0), Pt(151, 0), Pt(225, 0), Pt(1000, 1000)}

SpawnPositions == {Pt(0, 0)}

GuardRoutes == {<<Pt(0, 0), Pt(100, 0)>>}

Configs ==
    { [health |-> None, detectionRange |-> None, attackRange |-> None,
       speed |-> None, patrolPoints |-> None],
      [health |-> Some(50), detectionRange |-> None, attackRange |-> None,
       speed |-> None, patrolPoints |-> Some(<<>>)] }

Amounts == {0, 50, 150}

QueryPoints == {Pt(3, 4), Pt(0, 150)}

Radii == {4, 5, 150}

MutatedPositions == {Pt(100, 0)}

\* ------------------------------------------------------------------ helpers
Max(a, b) == IF a >= b THEN a ELSE b

Min(a, b) == IF a <= b THEN a ELSE b

RECURSIVE ISqrtIn(_, _, _)
ISqrtIn(n, lo, hi) ==
    IF lo >= hi THEN lo
    ELSE LET mid == (lo + hi + 1) \div 2
         IN  IF mid * mid <= n THEN ISqrtIn(n, mid, hi)
             ELSE ISqrtIn(n, lo, mid - 1)

\* floor of the square root
ISqrt(n) == ISqrtIn(n, 0, n)

\* a / b rounded toward zero, b > 0
Quot(a, b) == IF a >= 0 THEN a \div b ELSE 0 - ((0 - a) \div b)

\* the ?? operator on an optional config field
Coalesce(opt, default) == IF opt = None THEN default ELSE opt[1]

\* JavaScript truthiness of an optional array: every array, the empty one
\* included, is truthy; only an absent one is falsy
Truthy(opt) == opt # None

DEFAULT_NPC_CONFIG ==
    [health |-> 100, detectionRange |-> 150, attackRange |-> 50, speed |-> 4]

\* ------------------------------------------------------------- NPCController
NPCControllerNew(id, position, config) ==
    [ id |-> id,
      state |-> IF Truthy(config.patrolPoints) THEN "patrol" ELSE "idle",
      position |-> [x |-> position.x, y |-> position.y],
      health |-> Coalesce(config.health, DEFAULT_NPC_CONFIG.health),
      maxHealth |-> Coalesce(config.health, DEFAULT_NPC_CONFIG.health),
      detectionRange |->
          Coalesce(config.detectionRange, DEFAULT_NPC_CONFIG.detectionRange),
      attackRange |->
          Coalesce(config.attackRange, DEFAULT_NPC_CONFIG.attackRange),
      speed |-> Coalesce(config.speed, DEFAULT_NPC_CONFIG.speed),
      patrolPoints |-> config.patrolPoints,
      currentPatrolIndex |-> 0,
      lastUpdateTime |-> now ]

\* squared Euclidean distance from the actor to target
getDistanceTo(npc, target) ==
    LET dx == target.x - npc.position.x
        dy == target.y - npc.position.y
    IN  dx * dx + dy * dy

\* d2 is a squared distance, r a range: sqrt(d2) <= r
WithinRange(d2, r) == d2 <= r * r

transitionTo(npc, newState) == [npc EXCEPT !.state = newState]

\* moveTowards without Math.min(..., 1): a step longer than the way left
\* carries the actor past the target
moveTowardsUncapped(npc, target, deltaTime) ==
    LET dx == target.x - npc.position.x
        dy == target.y - npc.position.y
        d2 == dx * dx + dy * dy
        moveDistance == (npc.speed * deltaTime * 60) \div 2000
    IN  IF d2 > 0
        THEN [npc EXCEPT !.position =
                 [x |-> npc.position.x + Quot(dx * moveDistance, ISqrt(d2)),
                  y |-> npc.position.y + Quot(dy * moveDistance, ISqrt(d2))]]
        ELSE npc

\* deltaTime is in milliseconds, speed in half units:
\* moveDistance = (speed/2) * (deltaTime/1000) * 60
moveTowards(npc, target, deltaTime) ==
    LET dx == target.x - npc.position.x
        dy == target.y - npc.position.y
        d2 == dx * dx + dy * dy
        moveDistance == (npc.speed * deltaTime * 60) \div 2000
    IN  IF d2 > 0
        THEN IF moveDistance * moveDistance >= d2
             THEN [npc EXCEPT !.position = [x |-> npc.position.x + dx,
                                            y |-> npc.position.y + dy]]
             ELSE [npc EXCEPT !.position =
                      [x |-> npc.position.x + Quot(dx * moveDistance, ISqrt(d2)),
                       y |-> npc.position.y + Quot(dy * moveDistance, ISqrt(d2))]]
        ELSE npc

\* handleIdleState with the detection boundary excluded
handleIdleStateStrict(npc, distanceToPlayer) ==
    IF distanceToPlayer < npc.detectionRange * npc.detectionRange
    THEN transitionTo(npc, "aggressive")
    ELSE npc

handleIdleState(npc, distanceToPlayer) ==
    IF WithinRange(distanceToPlayer, npc.detectionRange)
    THEN transitionTo(npc, "aggressive")
    ELSE npc

\* handlePatrolState that walks the route before it looks for the player
handlePatrolStateMoveFirst(npc, distanceToPlayer, deltaTime) ==
    LET walked ==
          IF Truthy(npc.patrolPoints) /\ Len(npc.patrolPoints[1]) > 0
          THEN LET route == npc.patrolPoints[1]
                   targetPoint == route[npc.currentPatrolIndex + 1]
                   distanceToTarget == getDistanceTo(npc, targetPoint)
               IN  IF distanceToTarget < 25
                   THEN [npc EXCEPT !.currentPatrolIndex =
                            (npc.currentPatrolIndex + 1) % Len(route)]
                   ELSE moveTowards(npc, targetPoint, deltaTime)
          ELSE npc
    IN  IF WithinRange(distanceToPlayer, npc.detectionRange)
        THEN transitionTo(walked, "aggressive")
        ELSE walked

\* handlePatrolState that also walks on the tick on which it advances the index
handlePatrolStateAdvanceAndMove(npc, distanceToPlayer, deltaTime) ==
    IF WithinRange(distanceToPlayer, npc.detectionRange)
    THEN transitionTo(npc, "aggressive")
    ELSE IF Truthy(npc.patrolPoints) /\ Len(npc.patrolPoints[1]) > 0
         THEN LET route == npc.patrolPoints[1]
                  targetPoint == route[npc.currentPatrolIndex + 1]
                  distanceToTarget == getDistanceTo(npc, targetPoint)
                  next == (npc.currentPatrolIndex + 1) % Len(route)
              IN  IF distanceToTarget < 25
                  THEN moveTowards([npc EXCEPT !.currentPatrolIndex = next],
                                   route[next + 1], deltaTime)
                  ELSE moveTowards(npc, targetPoint, deltaTime)
         ELSE npc

\* handlePatrolState that stays on the last waypoint instead of wrapping to 0
handlePatrolStateNoWrap(npc, distanceToPlayer, deltaTime) ==
    IF WithinRange(distanceToPlayer, npc.detectionRange)
    THEN transitionTo(npc, "aggressive")
    ELSE IF Truthy(npc.patrolPoints) /\ Len(npc.patrolPoints[1]) > 0
         THEN LET route == npc.patrolPoints[1]
                  targetPoint == route[npc.currentPatrolIndex + 1]
                  distanceToTarget == getDistanceTo(npc, targetPoint)
              IN  IF distanceToTarget < 25
                  THEN [npc EXCEPT !.currentPatrolIndex =
                           Min(npc.currentPatrolIndex + 1, Len(route) - 1)]
                  ELSE moveTowards(npc, targetPoint, deltaTime)
         ELSE npc

handlePatrolState(npc, distanceToPlayer, deltaTime) ==
    IF WithinRange(distanceToPlayer, npc.detectionRange)
    THEN transitionTo(npc, "aggressive")
    ELSE IF Truthy(npc.patrolPoints) /\ Len(npc.patrolPoints[1]) > 0
         THEN LET route == npc.patrolPoints[1]
                  targetPoint == route[npc.currentPatrolIndex + 1]
                  distanceToTarget == getDistanceTo(npc, targetPoint)
              IN  IF distanceToTarget < 25
                  THEN [npc EXCEPT !.currentPatrolIndex =
                           (npc.currentPatrolIndex + 1) % Len(route)]
                  ELSE moveTowards(npc, targetPoint, deltaTime)
         ELSE npc

\* handleAggressiveState without the hysteresis band: de-escalates as soon as
\* the player is outside detectionRange
handleAggressiveStateNoBand(npc, playerPosition, distanceToPlayer, deltaTime) ==
    IF ~WithinRange(distanceToPlayer, npc.detectionRange)
    THEN transitionTo(npc, IF Truthy(npc.patrolPoints) THEN "patrol" ELSE "idle")
    ELSE IF ~WithinRange(distanceToPlayer, npc.attackRange)
         THEN moveTowards(npc, playerPosition, deltaTime)
         ELSE npc

\* handleAggressiveState that calms every actor down to idle
handleAggressiveStateToIdle(npc, playerPosition, distanceToPlayer, deltaTime) ==
    IF 4 * distanceToPlayer > 9 * npc.detectionRange * npc.detectionRange
    THEN transitionTo(npc, "idle")
    ELSE IF ~WithinRange(distanceToPlayer, npc.attackRange)
         THEN moveTowards(npc, playerPosition, deltaTime)
         ELSE npc

\* handleAggressiveState that keeps walking inside attackRange
handleAggressiveStateNoHold(npc, playerPosition, distanceToPlayer, deltaTime) ==
    IF 4 * distanceToPlayer > 9 * npc.detectionRange * npc.detectionRange
    THEN transitionTo(npc, IF Truthy(npc.patrolPoints) THEN "patrol" ELSE "idle")
    ELSE moveTowards(npc, playerPosition, deltaTime)

\* distanceToPlayer > detectionRange * 1.5, on the squares
handleAggressiveState(npc, playerPosition, distanceToPlayer, deltaTime) ==
    IF 4 * distanceToPlayer > 9 * npc.detectionRange * npc.detectionRange
    THEN transitionTo(npc, IF Truthy(npc.patrolPoints) THEN "patrol" ELSE "idle")
    ELSE IF ~WithinRange(distanceToPlayer, npc.attackRange)
         THEN moveTowards(npc, playerPosition, deltaTime)
         ELSE npc

\* update that leaves an actor without health alone
updateAtSkipsDead(npc, playerPosition, clock) ==
    LET deltaTime == clock - npc.lastUpdateTime
        timed == [npc EXCEPT !.lastUpdateTime = clock]
        distanceToPlayer == getDistanceTo(timed, playerPosition)
    IN  CASE npc.health <= 0 -> npc
          [] timed.state = "idle" ->
               handleIdleState(timed, distanceToPlayer)
          [] timed.state = "patrol" ->
               handlePatrolState(timed, distanceToPlayer, deltaTime)
          [] timed.state = "aggressive" ->
               handleAggressiveState(timed, playerPosition, distanceToPlayer,
                                     deltaTime)
          [] OTHER -> timed

\* update when Date.now() returns clock
updateAt(npc, playerPosition, clock) ==
    LET deltaTime == clock - npc.lastUpdateTime
        timed == [npc EXCEPT !.lastUpdateTime = clock]
        distanceToPlayer == getDistanceTo(timed, playerPosition)
    IN  CASE timed.state = "idle" ->
               handleIdleState(timed, distanceToPlayer)
          [] timed.state = "patrol" ->
               handlePatrolState(timed, distanceToPlayer, deltaTime)
          [] timed.state = "aggressive" ->
               handleAggressiveState(timed, playerPosition, distanceToPlayer,
                                     deltaTime)
          [] OTHER -> timed

update(npc, playerPosition) == updateAt(npc, playerPosition, now)

\* takeDamage without the floor at 0
takeDamageNoFloor(npc, amount) ==
    LET hit == [npc EXCEPT !.health = npc.health - amount]
    IN  IF hit.state # "aggressive" THEN transitionTo(hit, "aggressive") ELSE hit

\* takeDamage that takes at least one point of health
takeDamageMinOne(npc, amount) ==
    LET hit == [npc EXCEPT !.health = Max(0, npc.health - Max(1, amount))]
    IN  IF hit.state # "aggressive" THEN transitionTo(hit, "aggressive") ELSE hit

takeDamage(npc, amount) ==
    LET hit == [npc EXCEPT !.health = Max(0, npc.health - amount)]
    IN  IF hit.state # "aggressive" THEN transitionTo(hit, "aggressive") ELSE hit

\* the result computed from the health before the hit
takeDamageResultStale(npc, amount) == npc.health <= 0

takeDamageResult(npc, amount) == takeDamage(npc, amount).health <= 0

heal(npc, amount) ==
    [npc EXCEPT !.health = Min(npc.maxHealth, npc.health + amount)]

canAttack(npc) == npc.state = "aggressive" /\ npc.health > 0

\* ------------------------------------------------------------ the weapon
\* GunStats in integers: damage and reloadTime (ms) as in the source,
\* fireRate in tenths of a shot per second, recoil and spread in hundredths,
\* magazineSize and currentAmmo in rounds.  A config that comes from JSON or
\* from generated stats has not been floored yet: its magazineSize is in
\* tenths of a round (25 is 2.5 rounds).
Stats(damage, fireRate, recoil, spread, magazineSize, reloadTime) ==
    [damage |-> damage, fireRate |-> fireRate, recoil |-> recoil,
     spread |-> spread, magazineSize |-> magazineSize,
     reloadTime |-> reloadTime]

PRESET_GUNS ==
    [t \in {"pistol", "rifle", "shotgun", "sniper"} |->
        CASE t = "pistol" ->
               [name |-> "M9 Pistol", type |-> "pistol",
                stats |-> Stats(25, 30, 20, 5, 15, 1500)]
          [] t = "rifle" ->
               [name |-> "M4A1 Rifle", type |-> "rifle",
                stats |-> Stats(35, 80, 40, 8, 30, 2000)]
          [] t = "shotgun" ->
               [name |-> "M870 Shotgun", type |-> "shotgun",
                stats |-> Stats(80, 10, 80, 30, 8, 2500)]
          [] OTHER ->
               [name |-> "M24 Sniper", type |-> "sniper",
                stats |-> Stats(120, 5, 90, 2, 5, 3000)]]

GunControllerNew(config) ==
    [config |-> config,
     currentAmmo |-> config.stats.magazineSize,
     isReloading |-> FALSE,
     lastFireTime |-> 0]

clamp(value, min, max) == Max(min, Min(max, value))

\* Math.floor of a number given in tenths
Floor10(tenths) == tenths \div 10

\* Math.round of a number given in tenths
Round10(tenths) == (tenths + 5) \div 10

\* validateConfig with Math.round in the place of Math.floor
validateConfigRounding(config) ==
    [name |-> IF config.name = "" THEN "Unknown Weapon" ELSE config.name,
     type |-> IF config.type = "" THEN "rifle" ELSE config.type,
     stats |-> Stats(clamp(config.stats.damage, 1, 200),
                     clamp(config.stats.fireRate, 1, 200),
                     clamp(config.stats.recoil, 0, 100),
                     clamp(config.stats.spread, 0, 100),
                     clamp(Round10(config.stats.magazineSize), 1, 100),
                     clamp(config.stats.reloadTime, 500, 5000))]

\* fireRate [0.1, 20] is [1, 200] tenths; recoil, spread [0, 1] is [0, 100]
\* hundredths
validateConfig(config) ==
    [name |-> IF config.name = "" THEN "Unknown Weapon" ELSE config.name,
     type |-> IF config.type = "" THEN "rifle" ELSE config.type,
     stats |-> Stats(clamp(config.stats.damage, 1, 200),
                     clamp(config.stats.fireRate, 1, 200),
                     clamp(config.stats.recoil, 0, 100),
                     clamp(config.stats.spread, 0, 100),
                     clamp(Floor10(config.stats.magazineSize), 1, 100),
                     clamp(config.stats.reloadTime, 500, 5000))]

\* the call throws
Thrown(message) == [error |-> message]

createPreset(type) ==
    IF type \in DOMAIN PRESET_GUNS
    THEN GunControllerNew(PRESET_GUNS[type])
    ELSE Thrown("Unknown preset gun type")

createFromJSON(jsonConfig) == GunControllerNew(validateConfig(jsonConfig))

\* defaultStats, magazineSize not floored yet: 20 rounds is 200 tenths
defaultStats == Stats(30, 50, 30, 10, 200, 2000)

\* {...defaultStats, ...aiStats}: aiStats is a function on some of the fields
createAIGenerated(aiStats, name, type) ==
    LET merged == [f \in DOMAIN defaultStats |->
                      IF f \in DOMAIN aiStats THEN aiStats[f]
                      ELSE defaultStats[f]]
    IN  GunControllerNew(validateConfig(
            [name |-> name, type |-> type, stats |-> merged]))

\* ------------------------------------------------------- the player state
\* currentMission is None for null and Some(mission) for a mission
initialState ==
    [health |-> 100, maxHealth |-> 100, ammo |-> 30, maxAmmo |-> 30,
     playerLevel |-> 1, position |-> Pt(0, 0), currentMission |-> None,
     equippedWeapon |-> "rifle", score |-> 0]

\* an intent without and with a payload
Intent(type) == [type |-> type]

IntentWith(type, payload) == [type |-> type, payload |-> payload]

\* COMPLETE_MISSION that pays a bonus of 50, mission or not
caseCompleteMissionBonus(state) ==
    IF state.currentMission = None
    THEN [state EXCEPT !.score = state.score + 50]
    ELSE [state EXCEPT
             !.score = state.score + state.currentMission[1].reward + 50,
             !.currentMission = None]

\* COMPLETE_MISSION that leaves the mission in place
caseCompleteMissionKeepsMission(state) ==
    IF state.currentMission = None THEN state
    ELSE [state EXCEPT !.score = state.score + state.currentMission[1].reward]

\* case "COMPLETE_MISSION"
caseCompleteMission(state) ==
    IF state.currentMission = None THEN state
    ELSE [state EXCEPT
             !.score = state.score + state.currentMission[1].reward,
             !.currentMission = None]

\* RESET that keeps the weapon in hand
caseResetKeepsWeapon(state) ==
    [initialState EXCEPT !.equippedWeapon = state.equippedWeapon]

\* case "RESET"
caseReset(state) == initialState

\* EQUIP_WEAPON that also hands over a full magazine
caseEquipWeaponRefills(state, action) ==
    [state EXCEPT !.equippedWeapon = action.payload, !.ammo = state.maxAmmo]

caseEquipWeapon(state, action) ==
    [state EXCEPT !.equippedWeapon = action.payload]

\* the SHOOT case without its guard on ammo
gameReducerShootUnguarded(state, action) ==
    CASE action.type = "SHOOT" -> [state EXCEPT !.ammo = state.ammo - 1]
      [] action.type = "RELOAD" -> [state EXCEPT !.ammo = state.maxAmmo]
      [] action.type = "TAKE_DAMAGE" ->
           [state EXCEPT !.health = Max(0, state.health - action.payload)]
      [] action.type = "HEAL" ->
           [state EXCEPT !.health =
               Min(state.maxHealth, state.health + action.payload)]
      [] action.type = "MOVE" ->
           [state EXCEPT !.position =
               Pt(state.position.x + action.payload.x,
                  state.position.y + action.payload.y)]
      [] action.type = "SET_MISSION" ->
           [state EXCEPT !.currentMission = Some(action.payload)]
      [] action.type = "COMPLETE_MISSION" -> caseCompleteMission(state)
      [] action.type = "EQUIP_WEAPON" -> caseEquipWeapon(state, action)
      [] action.type = "ADD_SCORE" ->
           [state EXCEPT !.score = state.score + action.payload]
      [] action.type = "RESET" -> caseReset(state)
      [] OTHER -> state

gameReducer(state, action) ==
    CASE action.type = "SHOOT" ->
           IF state.ammo <= 0 THEN state
           ELSE [state EXCEPT !.ammo = state.ammo - 1]
      [] action.type = "RELOAD" -> [state EXCEPT !.ammo = state.maxAmmo]
      [] action.type = "TAKE_DAMAGE" ->
           [state EXCEPT !.health = Max(0, state.health - action.payload)]
      [] action.type = "HEAL" ->
           [state EXCEPT !.health =
               Min(state.maxHealth, state.health + action.payload)]
      [] action.type = "MOVE" ->
           [state EXCEPT !.position =
               Pt(state.position.x + action.payload.x,
                  state.position.y + action.payload.y)]
      [] action.type = "SET_MISSION" ->
           [state EXCEPT !.currentMission = Some(action.payload)]
      [] action.type = "COMPLETE_MISSION" -> caseCompleteMission(state)
      [] action.type = "EQUIP_WEAPON" -> caseEquipWeapon(state, action)
      [] action.type = "ADD_SCORE" ->
           [state EXCEPT !.score = state.score + action.payload]
      [] action.type = "RESET" -> caseReset(state)
      [] OTHER -> state

\* MOVE that adds the step to the position object of its input
inputAfterMovesInPlace(state, action) ==
    IF action.type = "MOVE"
    THEN [state EXCEPT !.position = Pt(state.position.x + action.payload.x,
                                       state.position.y + action.payload.y)]
    ELSE state

\* The snapshot object passed to gameReducer, as the call leaves it.  No case
\* assigns to a field of state or of state.position: a case returns state
\* itself, initialState, or a new object literal built from {...state}.
inputAfter(state, action) == state

\* Which object a call of gameReducer returns: "input" when it returns state
\* itself, "initialState" for RESET, "fresh" for a new object literal; and
\* whether the position object in it is the one of the input ("shared", what
\* {...state} copies) or a new one.
returned(state, action) ==
    CASE action.type = "SHOOT" /\ state.ammo <= 0 ->
           [snapshot |-> "input", position |-> "shared"]
      [] action.type = "COMPLETE_MISSION" /\ state.currentMission = None ->
           [snapshot |-> "input", position |-> "shared"]
      [] action.type = "MOVE" -> [snapshot |-> "fresh", position |-> "fresh"]
      [] action.type = "RESET" ->
           [snapshot |-> "initialState", position |-> "initialState"]
      [] action.type \in {"SHOOT", "RELOAD", "TAKE_DAMAGE", "HEAL",
                          "SET_MISSION", "COMPLETE_MISSION", "EQUIP_WEAPON",
                          "ADD_SCORE"} ->
           [snapshot |-> "fresh", position |-> "shared"]
      [] OTHER -> [snapshot |-> "input", position |-> "shared"]

\* ---------------------------------------------------------------- actions
\* a registry without actors; the weapon the game screen creates and the
\* snapshot the provider starts from
Init ==
    /\ npcs = [i \in {} |-> 0]
    /\ now = 0
    /\ lastCall = [op |-> "new"]
    /\ gun = createPreset("rifle")
    /\ pending = <<>>
    /\ game = initialState
    /\ lastShot = None
    /\ issued = <<>>

Tick ==
    \E d \in Deltas :
        /\ now + d <= Horizon
        /\ now' = now + d
        /\ lastCall' = [op |-> "tick"]
        /\ UNCHANGED <<npcs, others>>

\* NPCManager.spawnNPC: Map.set stores the new controller under id, whether or
\* not id is already a key
spawnNPC(id, position, config) ==
    [i \in DOMAIN npcs \cup {id} |->
        IF i = id THEN NPCControllerNew(id, position, config) ELSE npcs[i]]

SpawnNPC ==
    \E id \in HostileIds, position \in SpawnPositions, config \in Configs :
        /\ npcs' = spawnNPC(id, position, config)
        /\ lastCall' = [op |-> "spawnNPC", id |-> id, config |-> config]
        /\ UNCHANGED <<now, others>>

guardConfig(patrolPoints) ==
    [health |-> Some(100), detectionRange |-> Some(200), attackRange |-> None,
     speed |-> Some(3), patrolPoints |-> Some(patrolPoints)]

CreatePatrollingGuard ==
    \E id \in GuardIds, patrolPoints \in GuardRoutes :
        /\ npcs' = spawnNPC(id, patrolPoints[1], guardConfig(patrolPoints))
        /\ lastCall' = [op |-> "createPatrollingGuard", id |-> id,
                        config |-> guardConfig(patrolPoints)]
        /\ UNCHANGED <<now, others>>

\* removeNPC that answers without deleting the entry
removeNPCKeepsEntry(id) == npcs

\* Map.delete(id): the entry of id leaves the map, the others stay
removeNPC(id) == [i \in DOMAIN npcs \ {id} |-> npcs[i]]

RemoveNPC ==
    \E id \in Ids :
        /\ npcs' = removeNPC(id)
        /\ lastCall' = [op |-> "removeNPC", id |-> id, ret |-> id \in DOMAIN npcs]
        /\ UNCHANGED <<now, others>>

updateAll(playerPosition) ==
    [i \in DOMAIN npcs |-> update(npcs[i], playerPosition)]

\* forEachUpdate over controllers that share one lastUpdateTime: an update
\* measures its deltaTime from the latest update of any controller
RECURSIVE forEachUpdateSharedTime(_, _, _, _)
forEachUpdateSharedTime(order, reads, registry, playerPosition) ==
    IF order = <<>> THEN registry
    ELSE LET latest == CHOOSE t \in {registry[i].lastUpdateTime :
                                        i \in DOMAIN registry} :
                           \A i \in DOMAIN registry :
                               registry[i].lastUpdateTime <= t
             shared == [registry[Head(order)] EXCEPT !.lastUpdateTime = latest]
         IN  forEachUpdateSharedTime(Tail(order), Tail(reads),
                 [registry EXCEPT
                     ![Head(order)] =
                         updateAt(shared, playerPosition, Head(reads))],
                 playerPosition)

\* Map.forEach calls update on one controller after the other, in the order
\* the map holds them, and every update reads Date.now() for itself:
\* order[k] is the k-th controller visited, reads[k] what Date.now() returns
\* in its update.
RECURSIVE forEachUpdate(_, _, _, _)
forEachUpdate(order, reads, registry, playerPosition) ==
    IF order = <<>> THEN registry
    ELSE forEachUpdate(Tail(order), Tail(reads),
             [registry EXCEPT
                 ![Head(order)] = updateAt(@, playerPosition, Head(reads))],
             playerPosition)

\* the orders in which a map can hold the controllers of the set ids
Orders(ids) ==
    {o \in [1..Cardinality(ids) -> ids] :
        \A i, j \in 1..Cardinality(ids) : i # j => o[i] # o[j]}

\* what Date.now() can return in n successive reads that start at now: the
\* clock never goes back, and it may move on between two reads
ClockReadings(n) ==
    LET times == {now} \cup {now + d : d \in {e \in Deltas : now + e <= Horizon}}
    IN  {r \in [1..n -> times] : \A i, j \in 1..n : i <= j => r[i] <= r[j]}

SameInstant(reads) == \A i, j \in DOMAIN reads : reads[i] = reads[j]

\* updateAll with the iteration spelled out
UpdateAllForEach ==
    \E p \in PlayerPositions, order \in Orders(DOMAIN npcs) :
      \E reads \in ClockReadings(Len(order)) :
        /\ npcs' = forEachUpdate(order, reads, npcs, p)
        /\ now' = IF order = <<>> THEN now ELSE reads[Len(order)]
        /\ lastCall' = [op |-> "updateAll", playerPosition |-> p,
                        order |-> order, reads |-> reads]
        /\ UNCHANGED others

UpdateAll ==
    \E playerPosition \in PlayerPositions :
        /\ npcs' = updateAll(playerPosition)
        /\ lastCall' = [op |-> "updateAll", playerPosition |-> playerPosition]
        /\ UNCHANGED <<now, others>>

\* update() on the handle spawnNPC returned
Update ==
    \E id \in DOMAIN npcs, playerPosition \in PlayerPositions :
        /\ npcs' = [npcs EXCEPT ![id] = update(npcs[id], playerPosition)]
        /\ lastCall' = [op |-> "update", id |-> id,
                        playerPosition |-> playerPosition,
                        from |-> npcs[id].state]
        /\ UNCHANGED <<now, others>>

TakeDamage ==
    \E id \in DOMAIN npcs, amount \in Amounts :
        /\ npcs' = [npcs EXCEPT ![id] = takeDamage(npcs[id], amount)]
        /\ lastCall' = [op |-> "takeDamage", id |-> id, amount |-> amount,
                        from |-> npcs[id].state,
                        ret |-> takeDamageResult(npcs[id], amount)]
        /\ UNCHANGED <<now, others>>

Heal ==
    \E id \in DOMAIN npcs, amount \in Amounts :
        /\ npcs' = [npcs EXCEPT ![id] = heal(npcs[id], amount)]
        /\ lastCall' = [op |-> "heal", id |-> id]
        /\ UNCHANGED <<now, others>>

\* -------------------------------------------------------------- accessors
\* An object a call returns: identity says whether it is a copy made by the
\* call ("fresh") or the object the controller itself holds ("internal").
Obj(identity, value) == [identity |-> identity, value |-> value]

\* { ...this.npc.position }
getPosition(npc) == Obj("fresh", npc.position)

\* { ...this.npc }: a new top-level object whose position and patrolPoints
\* properties are the controller's own objects
getNPC(npc) ==
    Obj("fresh",
        [ id |-> npc.id, state |-> npc.state, health |-> npc.health,
          maxHealth |-> npc.maxHealth, detectionRange |-> npc.detectionRange,
          attackRange |-> npc.attackRange, speed |-> npc.speed,
          currentPatrolIndex |-> npc.currentPatrolIndex,
          position |-> Obj("internal", npc.position),
          patrolPoints |->
              IF Truthy(npc.patrolPoints)
              THEN Some(Obj("internal", npc.patrolPoints[1]))
              ELSE None ])

\* the array is modelled as the set of its elements (ids are distinct)
getAllNPCs == {getNPC(npcs[i]) : i \in DOMAIN npcs}

getActiveNPCs == {s \in getAllNPCs : s.value.health > 0}

getAggressiveNPCs ==
    {s \in getAllNPCs : s.value.state = "aggressive" /\ s.value.health > 0}

getNPCsInRange(position, range) ==
    {s \in getAllNPCs :
        LET dx == s.value.position.value.x - position.x
            dy == s.value.position.value.y - position.y
        IN  WithinRange(dx * dx + dy * dy, range)}

\* ------------------------------------------------- the caller's own writes
\* A write to the object obj: it lands in the controller exactly when obj is
\* the controller's own object.
WritePosition(id, obj, p) ==
    IF obj.identity = "internal"
    THEN [npcs EXCEPT ![id].position = p]
    ELSE npcs

\* r = ctrl.getPosition(); r.x = p.x; r.y = p.y
MutateReturnedPosition ==
    \E id \in DOMAIN npcs, p \in MutatedPositions :
        /\ npcs' = WritePosition(id, getPosition(npcs[id]), p)
        /\ lastCall' = [op |-> "mutate", via |-> "getPosition"]
        /\ UNCHANGED <<now, others>>

\* s = ctrl.getNPC() or an element of manager.getAllNPCs();
\* s.position.x = p.x; s.position.y = p.y
MutateSnapshotPosition ==
    \E s \in getAllNPCs, p \in MutatedPositions :
        /\ npcs' = WritePosition(s.value.id, s.value.position, p)
        /\ lastCall' = [op |-> "mutate", via |-> "getNPC"]
        /\ UNCHANGED <<now, others>>

NextNPC ==
    \/ Tick
    \/ SpawnNPC
    \/ CreatePatrollingGuard
    \/ RemoveNPC
    \/ UpdateAll
    \/ Update
    \/ TakeDamage
    \/ Heal
    \/ MutateReturnedPosition
    \/ MutateSnapshotPosition

SpecNPC == Init /\ [][NextNPC]_allVars

\* ------------------------------------------------------ a guard on patrol
\* One guard walking its route for as long as the run lasts.  update() uses
\* the clock only in now - lastUpdateTime, so times are kept relative to the
\* guard's last update: the clock reads lastUpdateTime + d at the call, and
\* the origin of time is then moved to that reading.
PatrolRoutes ==
    {<<Pt(0, 0), Pt(100, 0)>>, <<Pt(0, 0), Pt(60, 0), Pt(30, 0)>>,
     <<Pt(0, 0), Pt(160, 0)>>, <<Pt(0, 0)>>}

\* milliseconds between two updates of the guard: 9, 18 and 45 units of walk
\* at the guard's speed of 1.5
PatrolDeltas == {100, 200, 500}

\* the player out of the guard's detection range wherever the guard stands
FarPositions == {Pt(1000, 1000)}

NearPositions == {Pt(150, 0)}

sinceLastUpdate(npc) == [npc EXCEPT !.lastUpdateTime = 0]

InitPatrol ==
    /\ now = 0
    /\ \E patrolPoints \in PatrolRoutes :
          /\ npcs = [id \in GuardIds |->
                       NPCControllerNew(id, patrolPoints[1],
                                        guardConfig(patrolPoints))]
          /\ lastCall = [op |-> "createPatrollingGuard", id |-> "g1",
                         config |-> guardConfig(patrolPoints)]
    /\ gun = createPreset("rifle")
    /\ pending = <<>>
    /\ game = initialState
    /\ lastShot = None
    /\ issued = <<>>

\* update() after d milliseconds, the player far away
PatrolTick ==
    \E id \in DOMAIN npcs, d \in PatrolDeltas, playerPosition \in FarPositions :
        /\ npcs' = [npcs EXCEPT ![id] =
                      sinceLastUpdate(updateAt(npcs[id], playerPosition,
                                               npcs[id].lastUpdateTime + d))]
        /\ lastCall' = [op |-> "update", id |-> id,
                        playerPosition |-> playerPosition,
                        from |-> npcs[id].state]
        /\ UNCHANGED <<now, others>>

\* update() after d milliseconds, the player close to the route
PatrolTickNear ==
    \E id \in DOMAIN npcs, d \in PatrolDeltas, playerPosition \in NearPositions :
        /\ npcs' = [npcs EXCEPT ![id] =
                      sinceLastUpdate(updateAt(npcs[id], playerPosition,
                                               npcs[id].lastUpdateTime + d))]
        /\ lastCall' = [op |-> "update", id |-> id,
                        playerPosition |-> playerPosition,
                        from |-> npcs[id].state]
        /\ UNCHANGED <<now, others>>

NextPatrol ==
    \/ PatrolTick
    \/ PatrolTickNear
    \/ TakeDamage
    \/ Heal

SpecPatrol == InitPatrol /\ [][NextPatrol]_allVars

\* the player stays away and the guard keeps being updated
NextPatrolFar == PatrolTick

SpecPatrolFair ==
    /\ InitPatrol
    /\ [][NextPatrolFar]_allVars
    /\ WF_allVars(PatrolTick)

\* ------------------------------------------------------- moveTowards alone
\* One actor and calls of moveTowards with targets and elapsed times drawn
\* from small sets; the speeds are those of the guard (1.5) and of the
\* default configuration (2), held in half units.
MoveSpeeds == {3, 4}

MoveStarts == {Pt(0, 0), Pt(100, 0)}

MoveTargets == {Pt(0, 0), Pt(100, 0), Pt(30, 40), Pt(-60, 80)}

\* elapsed milliseconds, none included
MoveDeltas == {0, 100, 500, 2000}

InitMove ==
    /\ now = 0
    /\ \E position \in MoveStarts, speed \in MoveSpeeds :
          npcs = [id \in HostileIds |->
                    [NPCControllerNew(id, position,
                                      [health |-> None, detectionRange |-> None,
                                       attackRange |-> None, speed |-> None,
                                       patrolPoints |-> None])
                       EXCEPT !.speed = speed]]
    /\ lastCall = [op |-> "new"]
    /\ gun = createPreset("rifle")
    /\ pending = <<>>
    /\ game = initialState
    /\ lastShot = None
    /\ issued = <<>>

MoveTowards ==
    \E id \in DOMAIN npcs, target \in MoveTargets, deltaTime \in MoveDeltas :
        /\ npcs' = [npcs EXCEPT ![id] = moveTowards(npcs[id], target, deltaTime)]
        /\ lastCall' = [op |-> "moveTowards", id |-> id, target |-> target,
                        deltaTime |-> deltaTime]
        /\ UNCHANGED <<now, others>>

NextMove == MoveTowards

SpecMove == InitMove /\ [][NextMove]_allVars

\* ------------------------------------------------------------ a pursuit
\* One aggressive actor and a player who stands still at PursuitPlayer.
\* The actor was spawned idle at one of PursuitStarts, all within 1.5 x
\* detectionRange of the player, and took damage; from then on it is
\* updated again and again.  Times are relative to its last update, as for
\* the guard on patrol.
PursuitPlayer == Pt(0, 0)

\* at distance 40 (inside attackRange 50), 50, 100, 150 (detectionRange),
\* 200 and 225 (1.5 x detectionRange) on the axes, and at 150 and 225 off
\* them
PursuitStarts ==
    {Pt(40, 0), Pt(0, 50), Pt(100, 0), Pt(0, -150), Pt(-200, 0), Pt(225, 0),
     Pt(120, 90), Pt(-135, 180)}

\* the default speed 2 and the squad's 1.5 and 2.5, held in half units
PursuitSpeeds == {None, Some(3), Some(5)}

\* elapsed milliseconds in which each of the speeds walks a whole number of
\* units
PursuitDeltas == {100, 200, 500}

InitPursuit ==
    /\ now = 0
    /\ \E position \in PursuitStarts, speed \in PursuitSpeeds :
          npcs = [id \in HostileIds |->
                    takeDamage(NPCControllerNew(id, position,
                                   [health |-> None, detectionRange |-> None,
                                    attackRange |-> None, speed |-> speed,
                                    patrolPoints |-> None]), 0)]
    /\ lastCall = [op |-> "takeDamage", id |-> "e1", amount |-> 0,
                   from |-> "idle", ret |-> FALSE]
    /\ gun = createPreset("rifle")
    /\ pending = <<>>
    /\ game = initialState
    /\ lastShot = None
    /\ issued = <<>>

\* update() after d milliseconds, the player where he stood
PursuitTick ==
    \E id \in DOMAIN npcs, d \in PursuitDeltas :
        /\ npcs' = [npcs EXCEPT ![id] =
                      sinceLastUpdate(updateAt(npcs[id], PursuitPlayer,
                                               npcs[id].lastUpdateTime + d))]
        /\ lastCall' = [op |-> "update", id |-> id,
                        playerPosition |-> PursuitPlayer,
                        from |-> npcs[id].state]
        /\ UNCHANGED <<now, others>>

NextPursuit == PursuitTick

SpecPursuitFair ==
    /\ InitPursuit
    /\ [][NextPursuit]_allVars
    /\ WF_allVars(PursuitTick)

\* ------------------------------------------------------- createEnemySquad
\* The id of a squad member is `enemy_${Date.now()}_${i}`: the clock reading
\* and the member's number.
SquadId(clock, i) == <<"enemy", clock, i>>

squadSize == 3

spread == 50

\* (cos, sin)(2 pi i / 3) x spread for i = 0, 1, 2, to the nearest unit
SquadOffsets == <<Pt(50, 0), Pt(-25, 43), Pt(-25, -43)>>

\* health 50 + Math.random() * 50 and speed 1.5 + Math.random(), the ends of
\* their bands (the speed held in half units)
SquadDraws == {[health |-> 50, speed |-> 3], [health |-> 99, speed |-> 4]}

SquadCentres == {Pt(0, 0), Pt(300, 0)}

\* where the player stands while the squads are updated
SquadPlayer == Pt(0, 0)

\* how many milliseconds pass in a run of the squad constructor
MaxSquadTicks == 1

\* the three spawnNPC calls of one createEnemySquad, draws[i + 1] being what
\* Math.random() gave member i
createEnemySquad(registry, centerPosition, draws, clock) ==
    LET ids == {SquadId(clock, i) : i \in 0 .. (squadSize - 1)}
        member(id) ==
            LET i == id[3]
            IN  NPCControllerNew(id,
                    Pt(centerPosition.x + SquadOffsets[i + 1].x,
                       centerPosition.y + SquadOffsets[i + 1].y),
                    [health |-> Some(draws[i + 1].health),
                     detectionRange |-> None, attackRange |-> None,
                     speed |-> Some(draws[i + 1].speed),
                     patrolPoints |-> None])
    IN  [id \in DOMAIN registry \cup ids |->
            IF id \in ids THEN member(id) ELSE registry[id]]

SquadTick ==
    /\ now < MaxSquadTicks
    /\ now' = now + 1
    /\ lastCall' = [op |-> "tick"]
    /\ UNCHANGED <<npcs, others>>

CreateEnemySquad ==
    \E centerPosition \in SquadCentres,
       draws \in [1 .. squadSize -> SquadDraws] :
        /\ npcs' = createEnemySquad(npcs, centerPosition, draws, now)
        /\ lastCall' = [op |-> "createEnemySquad",
                        centerPosition |-> centerPosition]
        /\ UNCHANGED <<now, others>>

\* update of every member, the player at the first centre
SquadUpdateAll ==
    /\ npcs' = updateAll(SquadPlayer)
    /\ lastCall' = [op |-> "updateAll", playerPosition |-> SquadPlayer]
    /\ UNCHANGED <<now, others>>

NextSquad ==
    \/ SquadTick
    \/ CreateEnemySquad
    \/ SquadUpdateAll

SpecSquad == Init /\ [][NextSquad]_allVars

\* the registry with the iteration of updateAll spelled out
NextRegistry ==
    \/ Tick
    \/ SpawnNPC
    \/ CreatePatrollingGuard
    \/ RemoveNPC
    \/ TakeDamage
    \/ UpdateAllForEach

SpecRegistry == Init /\ [][NextRegistry]_allVars

\* ------------------------------------------------------------ the weapon
\* a call of fire() or reload(): the controller after it, what it returned
\* and the callbacks it invoked
FireOutcome(g, result, signals) == [gun |-> g, result |-> result, signals |-> signals]

\* now - lastFireTime < 1000 / fireRate, with fireRate in tenths
OnCooldown(g, clock) ==
    (clock - g.lastFireTime) * g.config.stats.fireRate < 10000

\* fire() without the fire-rate gate
fireNoGate(g, clock) ==
    IF g.isReloading THEN FireOutcome(g, FALSE, {})
    ELSE IF g.currentAmmo <= 0 THEN FireOutcome(g, FALSE, {"onEmpty"})
    ELSE FireOutcome([g EXCEPT !.currentAmmo = g.currentAmmo - 1,
                            !.lastFireTime = clock], TRUE, {"onFire"})

\* fire() without the check of the magazine
fireNoAmmoCheck(g, clock) ==
    IF g.isReloading THEN FireOutcome(g, FALSE, {})
    ELSE IF OnCooldown(g, clock) THEN FireOutcome(g, FALSE, {})
    ELSE FireOutcome([g EXCEPT !.currentAmmo = g.currentAmmo - 1,
                            !.lastFireTime = clock], TRUE, {"onFire"})

\* fire() that does not look at isReloading
fireWhileReloading(g, clock) ==
    IF OnCooldown(g, clock) THEN FireOutcome(g, FALSE, {})
    ELSE IF g.currentAmmo <= 0 THEN FireOutcome(g, FALSE, {"onEmpty"})
    ELSE FireOutcome([g EXCEPT !.currentAmmo = g.currentAmmo - 1,
                            !.lastFireTime = clock], TRUE, {"onFire"})

\* fire() that rejects an empty magazine without calling onEmpty
fireEmptySilent(g, clock) ==
    IF g.isReloading THEN FireOutcome(g, FALSE, {})
    ELSE IF OnCooldown(g, clock) THEN FireOutcome(g, FALSE, {})
    ELSE IF g.currentAmmo <= 0 THEN FireOutcome(g, FALSE, {})
    ELSE FireOutcome([g EXCEPT !.currentAmmo = g.currentAmmo - 1,
                            !.lastFireTime = clock], TRUE, {"onFire"})

\* fire() when Date.now() returns clock
fire(g, clock) ==
    IF g.isReloading THEN FireOutcome(g, FALSE, {})
    ELSE IF OnCooldown(g, clock) THEN FireOutcome(g, FALSE, {})
    ELSE IF g.currentAmmo <= 0 THEN FireOutcome(g, FALSE, {"onEmpty"})
    ELSE FireOutcome([g EXCEPT !.currentAmmo = g.currentAmmo - 1,
                            !.lastFireTime = clock], TRUE, {"onFire"})

\* a call of reload(): the controller and the scheduled completions after it,
\* the callbacks invoked, and whether the promise it returns is resolved
\* already
ReloadOutcome(g, timers, signals, resolved) ==
    [gun |-> g, pending |-> timers, signals |-> signals, resolved |-> resolved]

\* reload() without the check of isReloading
reloadReentrant(g, timers, clock) ==
    ReloadOutcome([g EXCEPT !.isReloading = TRUE],
                  Append(timers, [due |-> clock + g.config.stats.reloadTime]),
                  {"onReload"}, FALSE)

\* reload() that does nothing on a full magazine
reloadSkipsFull(g, timers, clock) ==
    IF g.isReloading \/ g.currentAmmo >= g.config.stats.magazineSize
    THEN ReloadOutcome(g, timers, {}, TRUE)
    ELSE ReloadOutcome([g EXCEPT !.isReloading = TRUE],
                       Append(timers,
                              [due |-> clock + g.config.stats.reloadTime]),
                       {"onReload"}, FALSE)

\* reload() when setTimeout is called at clock
reload(g, timers, clock) ==
    IF g.isReloading THEN ReloadOutcome(g, timers, {}, TRUE)
    ELSE ReloadOutcome([g EXCEPT !.isReloading = TRUE],
                       Append(timers,
                              [due |-> clock + g.config.stats.reloadTime]),
                       {"onReload"}, FALSE)

\* the timer callback that refills the magazine and leaves isReloading set
reloadCompleteKeepsFlag(g) ==
    [g EXCEPT !.currentAmmo = g.config.stats.magazineSize]

\* the callback reload() hands to setTimeout
reloadComplete(g) ==
    [g EXCEPT !.currentAmmo = g.config.stats.magazineSize,
              !.isReloading = FALSE]

\* the longest run of ticks of the weapon's clock
MaxGunTicks == 8

\* the longest burst of fire() calls at one instant that is counted
MaxBurst == 31

GunDeltas == {125}

GunStartTimes == {100000}

GunHorizon == 100000 + MaxGunTicks * 125

PresetTypes == {"rifle"}

\* JSON configs: every stat below its range, at its lower end, above its
\* range, at its upper end (100.9 rounds), and inside the ranges with 2.5
\* rounds in the magazine
JsonConfigs ==
    {[name |-> "", type |-> "", stats |-> Stats(0, 0, -10, -5, -5, 100)],
     [name |-> "Least", type |-> "pistol", stats |-> Stats(1, 1, 0, 0, 10, 500)],
     [name |-> "Big", type |-> "sniper",
      stats |-> Stats(500, 250, 150, 200, 1505, 9000)],
     [name |-> "Most", type |-> "sniper",
      stats |-> Stats(200, 200, 100, 100, 1009, 5000)],
     [name |-> "Small", type |-> "pistol",
      stats |-> Stats(40, 80, 30, 10, 25, 500)]}

\* generated stats: none, and some of the fields
AiStats ==
    {[f \in {} |-> 0],
     [f \in {"fireRate", "magazineSize", "reloadTime"} |->
         CASE f = "fireRate" -> 40
           [] f = "magazineSize" -> 39
           [] OTHER -> 600]}

\* the weapon the game screen creates when it mounts
InitGun ==
    /\ npcs = [i \in {} |-> 0]
    /\ now \in GunStartTimes
    /\ gun = createPreset("rifle")
    /\ lastCall = [op |-> "createPreset", type |-> "rifle"]
    /\ pending = <<>>
    /\ game = initialState
    /\ lastShot = None
    /\ issued = <<>>

\* The factory makes a controller.  The model follows one controller at a
\* time: a new one takes the place of the old one, which must have no
\* completion scheduled.
CreatePreset ==
    \E t \in PresetTypes :
        /\ pending = <<>>
        /\ gun' = createPreset(t)
        /\ lastShot' = None
        /\ lastCall' = [op |-> "createPreset", type |-> t]
        /\ UNCHANGED <<npcs, now, pending, game, issued>>

CreateFromJSON ==
    \E c \in JsonConfigs :
        /\ pending = <<>>
        /\ gun' = createFromJSON(c)
        /\ lastShot' = None
        /\ lastCall' = [op |-> "createFromJSON", stats |-> c.stats]
        /\ UNCHANGED <<npcs, now, pending, game, issued>>

CreateAIGenerated ==
    \E a \in AiStats :
        /\ pending = <<>>
        /\ gun' = createAIGenerated(a, "AI", "rifle")
        /\ lastShot' = None
        /\ lastCall' = [op |-> "createAIGenerated", stats |-> a]
        /\ UNCHANGED <<npcs, now, pending, game, issued>>

\* a controller nothing has happened to
Fresh(g) == g = GunControllerNew(g.config)

\* the clock moves on
GunTick ==
    \E d \in GunDeltas :
        /\ now + d <= GunHorizon
        /\ now' = now + d
        /\ lastCall' = [op |-> "tick"]
        /\ UNCHANGED <<npcs, gun, pending, game, lastShot, issued>>

\* burst counts the fire() calls made at one instant, starting with a call
\* on a controller nothing has happened to; it is 0 in any other call
Fire ==
    LET out == fire(gun, now)
        burst == IF Fresh(gun) THEN 1
                 ELSE IF /\ lastCall.op = "fire"
                         /\ lastCall.burst > 0
                         /\ lastCall.at = now
                      THEN Min(lastCall.burst + 1, MaxBurst)
                      ELSE 0
    IN  /\ gun' = out.gun
        /\ lastShot' = IF out.result THEN Some(now) ELSE lastShot
        /\ lastCall' = [op |-> "fire", result |-> out.result,
                        signals |-> out.signals, at |-> now, burst |-> burst]
        /\ UNCHANGED <<npcs, now, pending, game, issued>>

Reload ==
    LET out == reload(gun, pending, now)
    IN  /\ gun' = out.gun
        /\ pending' = out.pending
        /\ lastCall' = [op |-> "reload", signals |-> out.signals,
                        resolved |-> out.resolved]
        /\ UNCHANGED <<npcs, now, game, lastShot, issued>>

\* a scheduled completion runs, not before it is due
ReloadTimer ==
    /\ pending # <<>>
    /\ now >= pending[1].due
    /\ gun' = reloadComplete(gun)
    /\ pending' = Tail(pending)
    /\ lastCall' = [op |-> "reloadTimer"]
    /\ UNCHANGED <<npcs, now, game, lastShot, issued>>

NextGun ==
    \/ CreatePreset
    \/ CreateFromJSON
    \/ CreateAIGenerated
    \/ GunTick
    \/ Fire
    \/ Reload
    \/ ReloadTimer

SpecGun == InitGun /\ [][NextGun]_allVars

\* the event loop runs every due timer and time does not stand still
SpecGunFair ==
    /\ InitGun
    /\ [][NextGun]_allVars
    /\ WF_allVars(GunTick)
    /\ WF_allVars(ReloadTimer)

\* --------------------------------------------------- the mission generator
\* An id is text followed by a clock reading: `${mission.id}_${Date.now()}`
\* has both, Date.now().toString() has no text, an id the server sent has no
\* clock reading (stamp -1).  A field that may be undefined is None or
\* Some(value).
MissionId(text, stamp) == [text |-> text, stamp |-> stamp]

Mission(id, title, objective, reward, targetNPC) ==
    [id |-> id, title |-> title, objective |-> objective, reward |-> reward,
     targetNPC |-> targetNPC]

FALLBACK_MISSIONS ==
    <<Mission("fallback_1", "Sector Sweep",
              "Clear all hostile forces from the designated sector and establish a safe perimeter.",
              500, "Enemy Commander"),
      Mission("fallback_2", "Intel Recovery",
              "Locate and retrieve the encrypted data drive from the abandoned outpost.",
              750, "Intel Officer"),
      Mission("fallback_3", "High Value Target",
              "Track and eliminate the enemy lieutenant before they escape the combat zone.",
              1000, "Lieutenant Voss"),
      Mission("fallback_4", "Supply Line Disruption",
              "Intercept and destroy the enemy supply convoy approaching from the north.",
              600, "Convoy Leader"),
      Mission("fallback_5", "Rescue Operation",
              "Extract the captured operative from the enemy stronghold before dawn.",
              850, "Prison Warden")>>

\* Math.round(n / d) for d > 0: the nearest integer, a half rounded up
RoundDiv(n, d) == (2 * n + d) \div (2 * d)

\* pick is Math.floor(Math.random() * FALLBACK_MISSIONS.length), clock is
\* Date.now(); the multiplier 1 + (playerLevel - 1) * 0.2 is
\* (5 + (playerLevel - 1)) / 5
getRandomFallbackMission(playerLevel, pick, clock) ==
    LET mission == FALLBACK_MISSIONS[pick + 1]
    IN  Mission(MissionId(mission.id, clock), Some(mission.title),
                Some(mission.objective),
                Some(RoundDiv(mission.reward * (5 + (playerLevel - 1)), 5)),
                Some(mission.targetNPC))

\* What the request can come to.  Rejected: apiRequest throws (the
\* request failed).  NotJson: response.json() throws.
\* Json(data): the body parsed; data is null, or an object whose mission is
\* absent, null, or an object with fields that may be undefined (an id of ""
\* stands for one that is missing or empty).
AbsentMission ==
    [kind |-> "absent", id |-> "", title |-> None, objective |-> None,
     reward |-> None, targetNPC |-> None]

NullMission == [AbsentMission EXCEPT !.kind = "null"]

MissionObject(id, title, objective, reward, targetNPC) ==
    [kind |-> "object", id |-> id, title |-> title, objective |-> objective,
     reward |-> reward, targetNPC |-> targetNPC]

Rejected == [kind |-> "rejects", isNull |-> FALSE, mission |-> AbsentMission]

NotJson == [kind |-> "notJson", isNull |-> FALSE, mission |-> AbsentMission]

JsonNull == [kind |-> "json", isNull |-> TRUE, mission |-> AbsentMission]

Json(mission) == [kind |-> "json", isNull |-> FALSE, mission |-> mission]

\* a promise that resolved with value
Resolved(value) == [settled |-> "resolved", value |-> value]

\* generateMission: the try block returns the server's mission when
\* data.mission is truthy and the fallback otherwise; reading data.mission of
\* null throws, and the catch block returns the fallback for anything thrown
generateMission(response, playerLevel, pick, clock) ==
    IF response.kind \in {"rejects", "notJson"}
    THEN Resolved(getRandomFallbackMission(playerLevel, pick, clock))
    ELSE IF response.isNull
    THEN Resolved(getRandomFallbackMission(playerLevel, pick, clock))
    ELSE IF response.mission.kind \in {"absent", "null"}
    THEN Resolved(getRandomFallbackMission(playerLevel, pick, clock))
    ELSE LET m == response.mission
         IN  Resolved(Mission(IF m.id = "" THEN MissionId("", clock)
                              ELSE MissionId(m.id, -1),
                              m.title, m.objective, m.reward, m.targetNPC))

\* how many fallback missions a run generates
MaxMissions == 2

\* how many milliseconds pass in a run of the generator
MaxMissionTicks == 1

PlayerLevels == {1, 2, 3}

Picks == 0 .. (Len(FALLBACK_MISSIONS) - 1)

\* a payload with every field, one without id, one lacking title, one with
\* nothing but an id
MissionPayloads ==
    {MissionObject("srv_1", Some("Night Raid"), Some("Take the ridge."),
                   Some(300), Some("Warlord")),
     MissionObject("", Some("Night Raid"), Some("Take the ridge."),
                   Some(300), Some("Warlord")),
     MissionObject("srv_2", None, Some("Take the ridge."), Some(300),
                   Some("Warlord")),
     MissionObject("srv_3", None, None, None, None)}

Responses ==
    {Rejected, NotJson, JsonNull, Json(AbsentMission), Json(NullMission)}
    \cup {Json(m) : m \in MissionPayloads}

\* a millisecond passes
MissionTick ==
    /\ now < MaxMissionTicks
    /\ now' = now + 1
    /\ UNCHANGED <<npcs, lastCall, others>>

\* a call of generateMission whose request came to response; the id of a
\* fallback mission joins the history
GenerateMission ==
    \E response \in Responses, playerLevel \in PlayerLevels, pick \in Picks :
        LET result == generateMission(response, playerLevel, pick, now)
            fallback == getRandomFallbackMission(playerLevel, pick, now)
        IN  /\ Len(issued) < MaxMissions
            /\ lastCall' = [op |-> "generateMission", response |-> response,
                            playerLevel |-> playerLevel, result |-> result]
            /\ issued' = IF result.value = fallback
                         THEN Append(issued, fallback.id)
                         ELSE issued
            /\ UNCHANGED <<npcs, now, gun, pending, game, lastShot>>

NextMission ==
    \/ MissionTick
    \/ GenerateMission

SpecMission == Init /\ [][NextMission]_allVars

\* ------------------------------------------------ the player state: inputs
\* how far health may leave [0, maxHealth] before the run is cut
HealthSpan == 150

MaxScore == 100

MaxCoord == 1

\* amounts a TAKE_DAMAGE or HEAL intent carries: the payload is a number
Payloads == {-50, 0, 50, 150}

MovePayloads == {Pt(1, 0)}

\* a mission, by the fields the reducer reads or that tell it apart
\* the second is a mission as generateMission passes it on from a server that
\* sent a negative reward
Missions == {[id |-> "m1", reward |-> 100], [id |-> "m2", reward |-> -100]}

Weapons == {"rifle", "pistol"}

ScorePayloads == {50, -50}

\* the snapshots the run keeps: health, score and position inside the caps
InCaps(state) ==
    /\ 0 - HealthSpan <= state.health
    /\ state.health <= state.maxHealth + HealthSpan
    /\ 0 - MaxScore <= state.score /\ state.score <= MaxScore
    /\ 0 - MaxCoord <= state.position.x /\ state.position.x <= MaxCoord
    /\ 0 - MaxCoord <= state.position.y /\ state.position.y <= MaxCoord

\* dispatch(action): the provider's state becomes gameReducer(state, action)
dispatch(action) == gameReducer(game, action)

DispatchShoot ==
    /\ InCaps(dispatch(Intent("SHOOT")))
    /\ game' = dispatch(Intent("SHOOT"))
    /\ lastCall' = [op |-> "dispatch", action |-> Intent("SHOOT")]
    /\ UNCHANGED <<npcs, now, gun, pending, lastShot, issued>>

DispatchReload ==
    /\ InCaps(dispatch(Intent("RELOAD")))
    /\ game' = dispatch(Intent("RELOAD"))
    /\ lastCall' = [op |-> "dispatch", action |-> Intent("RELOAD")]
    /\ UNCHANGED <<npcs, now, gun, pending, lastShot, issued>>

DispatchTakeDamage ==
    \E n \in Payloads :
        /\ InCaps(dispatch(IntentWith("TAKE_DAMAGE", n)))
        /\ game' = dispatch(IntentWith("TAKE_DAMAGE", n))
        /\ lastCall' = [op |-> "dispatch", action |-> IntentWith("TAKE_DAMAGE", n)]
        /\ UNCHANGED <<npcs, now, gun, pending, lastShot, issued>>

DispatchHeal ==
    \E n \in Payloads :
        /\ InCaps(dispatch(IntentWith("HEAL", n)))
        /\ game' = dispatch(IntentWith("HEAL", n))
        /\ lastCall' = [op |-> "dispatch", action |-> IntentWith("HEAL", n)]
        /\ UNCHANGED <<npcs, now, gun, pending, lastShot, issued>>

DispatchMove ==
    \E d \in MovePayloads :
        /\ InCaps(dispatch(IntentWith("MOVE", d)))
        /\ game' = dispatch(IntentWith("MOVE", d))
        /\ lastCall' = [op |-> "dispatch", action |-> IntentWith("MOVE", d)]
        /\ UNCHANGED <<npcs, now, gun, pending, lastShot, issued>>

DispatchSetMission ==
    \E m \in Missions :
        /\ InCaps(dispatch(IntentWith("SET_MISSION", m)))
        /\ game' = dispatch(IntentWith("SET_MISSION", m))
        /\ lastCall' = [op |-> "dispatch", action |-> IntentWith("SET_MISSION", m)]
        /\ UNCHANGED <<npcs, now, gun, pending, lastShot, issued>>

\* completed: the mission the snapshot held when the intent was dispatched
DispatchCompleteMission ==
    /\ InCaps(dispatch(Intent("COMPLETE_MISSION")))
    /\ game' = dispatch(Intent("COMPLETE_MISSION"))
    /\ lastCall' = [op |-> "dispatch", action |-> Intent("COMPLETE_MISSION"),
                    completed |-> game.currentMission]
    /\ UNCHANGED <<npcs, now, gun, pending, lastShot, issued>>

DispatchEquipWeapon ==
    \E w \in Weapons :
        /\ InCaps(dispatch(IntentWith("EQUIP_WEAPON", w)))
        /\ game' = dispatch(IntentWith("EQUIP_WEAPON", w))
        /\ lastCall' = [op |-> "dispatch", action |-> IntentWith("EQUIP_WEAPON", w)]
        /\ UNCHANGED <<npcs, now, gun, pending, lastShot, issued>>

DispatchAddScore ==
    \E n \in ScorePayloads :
        /\ InCaps(dispatch(IntentWith("ADD_SCORE", n)))
        /\ game' = dispatch(IntentWith("ADD_SCORE", n))
        /\ lastCall' = [op |-> "dispatch", action |-> IntentWith("ADD_SCORE", n)]
        /\ UNCHANGED <<npcs, now, gun, pending, lastShot, issued>>

\* from: the snapshot RESET was dispatched on
DispatchReset ==
    /\ InCaps(dispatch(Intent("RESET")))
    /\ game' = dispatch(Intent("RESET"))
    /\ lastCall' = [op |-> "dispatch", action |-> Intent("RESET"), from |-> game]
    /\ UNCHANGED <<npcs, now, gun, pending, lastShot, issued>>

\* an intent of a type the reducer has no case for
DispatchUnknown ==
    /\ InCaps(dispatch(Intent("UNKNOWN")))
    /\ game' = dispatch(Intent("UNKNOWN"))
    /\ lastCall' = [op |-> "dispatch", action |-> Intent("UNKNOWN"),
                    returned |-> returned(game, Intent("UNKNOWN")).snapshot]
    /\ UNCHANGED <<npcs, now, gun, pending, lastShot, issued>>

\* every intent the run dispatches
Intents ==
    {Intent(t) : t \in {"SHOOT", "RELOAD", "COMPLETE_MISSION", "RESET",
                         "UNKNOWN"}}
    \cup {IntentWith("TAKE_DAMAGE", n) : n \in Payloads}
    \cup {IntentWith("HEAL", n) : n \in Payloads}
    \cup {IntentWith("MOVE", d) : d \in MovePayloads}
    \cup {IntentWith("SET_MISSION", m) : m \in Missions}
    \cup {IntentWith("EQUIP_WEAPON", w) : w \in Weapons}
    \cup {IntentWith("ADD_SCORE", n) : n \in ScorePayloads}

NextGame ==
    \/ DispatchShoot
    \/ DispatchReload
    \/ DispatchTakeDamage
    \/ DispatchHeal
    \/ DispatchMove
    \/ DispatchSetMission
    \/ DispatchCompleteMission
    \/ DispatchEquipWeapon
    \/ DispatchAddScore
    \/ DispatchReset
    \/ DispatchUnknown

SpecGame == Init /\ [][NextGame]_allVars

\* ------------------------------------------------- the game-world screen
\* GameWorldContent holds the player state of the provider and a rifle
\* controller of its own, made when the screen mounts.  state.ammo in a
\* handler is the ammo of the snapshot the screen last rendered, taken here
\* to be the current one.

\* the shoot button: with ammo left in the player state, SHOOT is dispatched
\* and fire() is called, its result dropped; without, neither
handleShoot ==
    /\ game' = IF game.ammo > 0 THEN gameReducer(game, Intent("SHOOT")) ELSE game
    /\ gun' = IF game.ammo > 0 THEN fire(gun, now).gun ELSE gun
    /\ lastShot' = IF game.ammo > 0 /\ fire(gun, now).result
                   THEN Some(now) ELSE lastShot
    /\ lastCall' = [op |-> "handleShoot", counted |-> game.ammo > 0,
                    fired |-> game.ammo > 0 /\ fire(gun, now).result]
    /\ UNCHANGED <<npcs, now, pending, issued>>

\* the reload button: RELOAD is dispatched; the controller is not called
handleReload ==
    /\ game' = gameReducer(game, Intent("RELOAD"))
    /\ lastCall' = [op |-> "handleReload"]
    /\ UNCHANGED <<npcs, now, gun, pending, lastShot, issued>>

NextScreen ==
    \/ GunTick
    \/ handleShoot
    \/ handleReload

SpecScreen == InitGun /\ [][NextScreen]_allVars

\* ------------------------------------------------------------------ claims
\* The actor id is updated by the step: update() on its handle, or updateAll.
UpdatedBy(id) ==
    \/ lastCall'.op = "updateAll"
    \/ lastCall'.op = "update" /\ lastCall'.id = id

Spawned == lastCall.op \in {"spawnNPC", "createPatrollingGuard"}

HasRoute(npc) == Truthy(npc.patrolPoints) /\ Len(npc.patrolPoints[1]) > 0

\* C1: after any sequence of update, takeDamage(amount >= 0) and
\* heal(amount >= 0) calls, every actor has 0 <= health <= maxHealth and its
\* state is one of idle, patrol, aggressive.
C1_HealthAndStateInvariant ==
    \A id \in DOMAIN npcs :
        /\ 0 <= npcs[id].health
        /\ npcs[id].health <= npcs[id].maxHealth
        /\ npcs[id].state \in {"idle", "patrol", "aggressive"}

\* a hit larger than the remaining health has been taken
C1_Witness ==
    /\ lastCall.op = "takeDamage"
    /\ lastCall.amount = 150
    /\ npcs[lastCall.id].health = 0

\* C2: an update takes an aggressive actor out of the aggressive state only
\* when the player is farther than 1.5 x detectionRange; so an aggressive
\* actor stays aggressive on every tick on which the player is within
\* 1.5 x detectionRange, on either side of detectionRange.
C2_HysteresisBand ==
    [][\A id \in DOMAIN npcs :
          (/\ UpdatedBy(id)
           /\ npcs[id].state = "aggressive"
           /\ npcs'[id].state # "aggressive")
          => 4 * getDistanceTo(npcs[id], lastCall'.playerPosition)
                > 9 * npcs[id].detectionRange * npcs[id].detectionRange]_vars

\* an aggressive actor has been updated with the player between detectionRange
\* and 1.5 x detectionRange and is still aggressive
C2_Witness ==
    /\ lastCall.op = "update"
    /\ lastCall.from = "aggressive"
    /\ npcs[lastCall.id].state = "aggressive"
    /\ ~WithinRange(getDistanceTo(npcs[lastCall.id], lastCall.playerPosition),
                    npcs[lastCall.id].detectionRange)

\* C3: an update makes an idle actor aggressive exactly when the player is at
\* distance <= detectionRange (boundary included); otherwise it stays idle.
C3_IdleDetection ==
    [][\A id \in DOMAIN npcs :
          (UpdatedBy(id) /\ npcs[id].state = "idle")
          => LET near == WithinRange(
                            getDistanceTo(npcs[id], lastCall'.playerPosition),
                            npcs[id].detectionRange)
             IN  /\ npcs'[id].state = "aggressive" <=> near
                 /\ ~near => npcs'[id].state = "idle"]_vars

\* an idle actor has been updated with the player at exactly detectionRange
\* and is aggressive
C3_Witness ==
    /\ lastCall.op = "update"
    /\ lastCall.from = "idle"
    /\ npcs[lastCall.id].state = "aggressive"
    /\ getDistanceTo(npcs[lastCall.id], lastCall.playerPosition)
          = npcs[lastCall.id].detectionRange * npcs[lastCall.id].detectionRange

\* C4: a spawn with an id that is already a key of the registry leaves the
\* registry, and the actor stored under that id, unchanged.
C4_DuplicateSpawnRejected ==
    [][(/\ lastCall'.op \in {"spawnNPC", "createPatrollingGuard"}
        /\ lastCall'.id \in DOMAIN npcs)
       => npcs' = npcs]_vars

\* C5: a newly spawned actor is in state patrol exactly when a non-empty
\* route was supplied, and idle otherwise; every actor in state patrol has a
\* non-empty route.
C5_PatrolIffNonEmptyRoute ==
    /\ \A id \in DOMAIN npcs : npcs[id].state = "patrol" => HasRoute(npcs[id])
    /\ Spawned =>
          LET supplied == /\ Truthy(lastCall.config.patrolPoints)
                          /\ Len(lastCall.config.patrolPoints[1]) > 0
          IN  npcs[lastCall.id].state = IF supplied THEN "patrol" ELSE "idle"

\* C6: takeDamage(amount) with amount >= health leaves health at exactly 0
\* and returns true; takeDamage returns true exactly when health is 0 after
\* the call.
C6_TakeDamageResult ==
    [][lastCall'.op = "takeDamage"
       => /\ lastCall'.amount >= npcs[lastCall'.id].health
             => /\ npcs'[lastCall'.id].health = 0
                /\ lastCall'.ret = TRUE
          /\ lastCall'.ret <=> npcs'[lastCall'.id].health = 0]_vars

\* a positive hit has brought an actor to 0 health and returned true
C6_Witness ==
    /\ lastCall.op = "takeDamage"
    /\ lastCall.amount > 0
    /\ lastCall.ret = TRUE
    /\ npcs[lastCall.id].health = 0

\* C7 as stated: takeDamage(0) returns false and changes nothing about the
\* actor except that its state becomes aggressive.
C7_ZeroDamageReturnsFalse ==
    [][(lastCall'.op = "takeDamage" /\ lastCall'.amount = 0)
       => /\ lastCall'.ret = FALSE
          /\ npcs' = [npcs EXCEPT ![lastCall'.id].state = "aggressive"]]_vars

\* C7 amended: takeDamage(0) changes nothing about the actor except that its
\* state becomes aggressive, and returns false exactly when the actor's
\* health is above 0 (on an actor already at 0 health it returns true).
C7_ZeroDamageAmended ==
    [][(lastCall'.op = "takeDamage" /\ lastCall'.amount = 0)
       => /\ lastCall'.ret = (npcs[lastCall'.id].health = 0)
          /\ npcs' = [npcs EXCEPT ![lastCall'.id].state = "aggressive"]]_vars

\* takeDamage(0) has returned false on a live actor that was not aggressive
C7_Witness ==
    /\ lastCall.op = "takeDamage"
    /\ lastCall.amount = 0
    /\ lastCall.from # "aggressive"
    /\ lastCall.ret = FALSE
    /\ npcs[lastCall.id].state = "aggressive"
    /\ npcs[lastCall.id].health > 0

\* The guard of scenario A as createPatrollingGuard leaves it: in patrol, at
\* the first waypoint (0,0) of the route [(0,0),(100,0)], waypoint index 0.
ScenarioAGuard(npc) ==
    /\ npc.state = "patrol"
    /\ npc.patrolPoints = Some(<<Pt(0, 0), Pt(100, 0)>>)
    /\ npc.position = Pt(0, 0)
    /\ npc.detectionRange = 200

\* C8 as stated: one update of the freshly spawned guard of scenario A, with
\* the player at (1000,1000), moves the guard and leaves it in patrol.
C8_ScenarioAMoves ==
    [][\A id \in DOMAIN npcs :
          (/\ UpdatedBy(id)
           /\ lastCall'.playerPosition = Pt(1000, 1000)
           /\ ScenarioAGuard(npcs[id])
           /\ npcs[id].currentPatrolIndex = 0)
          => /\ npcs'[id].position # npcs[id].position
             /\ npcs'[id].state = "patrol"]_vars

\* C8 amended: the first update of the guard of scenario A leaves it at (0,0)
\* in state patrol and only advances its waypoint index to 1 (it stands on
\* waypoint 0); an update after that, with time elapsed since the last one,
\* moves it along the route toward (100,0), still in patrol.
C8_ScenarioAAmended ==
    [][\A id \in DOMAIN npcs :
          (/\ UpdatedBy(id)
           /\ lastCall'.playerPosition = Pt(1000, 1000)
           /\ ScenarioAGuard(npcs[id]))
          => /\ npcs'[id].state = "patrol"
             /\ npcs[id].currentPatrolIndex = 0
                => /\ npcs'[id].position = npcs[id].position
                   /\ npcs'[id].currentPatrolIndex = 1
             /\ (npcs[id].currentPatrolIndex = 1
                   /\ now > npcs[id].lastUpdateTime)
                => /\ npcs'[id].position.x > 0
                   /\ npcs'[id].position.x <= 100
                   /\ npcs'[id].position.y = 0
                   /\ npcs'[id].currentPatrolIndex = 1]_vars

\* the guard of scenario A has had its first update, a tick after its spawn
C8_Witness ==
    /\ lastCall.op = "update"
    /\ lastCall.from = "patrol"
    /\ lastCall.playerPosition = Pt(1000, 1000)
    /\ now > 0
    /\ ScenarioAGuard(npcs[lastCall.id])
    /\ npcs[lastCall.id].currentPatrolIndex = 1
    /\ npcs[lastCall.id].lastUpdateTime = now

\* C9: a write by the caller to any part of a value that an accessor returned
\* changes nothing in the registry's actors.
C9_ReturnedValuesAreCopies ==
    [][lastCall'.op = "mutate" => npcs' = npcs]_vars

\* A snapshot of an actor with health > 0 at Euclidean distance <= range.
LiveInRange(position, range) ==
    {getNPC(npcs[i]) : i \in
        {j \in DOMAIN npcs :
            /\ npcs[j].health > 0
            /\ WithinRange(getDistanceTo(npcs[j], position), range)}}

\* C10: getAggressiveNPCs and getNPCsInRange return no actor with health 0,
\* and getNPCsInRange returns exactly the live actors at distance <= radius.
C10_QueriesFilterDead ==
    /\ \A s \in getAggressiveNPCs : s.value.health > 0
    /\ \A position \in QueryPoints, range \in Radii :
          /\ \A s \in getNPCsInRange(position, range) : s.value.health > 0
          /\ getNPCsInRange(position, range) = LiveInRange(position, range)

\* what C11 compares: position, behaviour state, patrol index and health of
\* every actor
Outcome(registry) ==
    [i \in DOMAIN registry |->
        [position |-> registry[i].position, state |-> registry[i].state,
         currentPatrolIndex |-> registry[i].currentPatrolIndex,
         health |-> registry[i].health]]

\* C11 as stated: updateAll is order-independent: from any registry contents
\* the state of every actor after the call is the same for every order in
\* which the actors are updated, whatever the clock does during the call.
C11_OrderIndependent ==
    \A p \in PlayerPositions, o1 \in Orders(DOMAIN npcs),
       o2 \in Orders(DOMAIN npcs) :
        \A reads \in ClockReadings(Cardinality(DOMAIN npcs)) :
            Outcome(forEachUpdate(o1, reads, npcs, p))
              = Outcome(forEachUpdate(o2, reads, npcs, p))

\* C11 amended: when Date.now() returns the same value in every actor's
\* update of one updateAll call, the state of every actor after the call is
\* the same for every order of updating, and it is the state that updating
\* each actor on its own gives.
C11_OrderIndependentAtOneInstant ==
    \A p \in PlayerPositions, o1 \in Orders(DOMAIN npcs),
       o2 \in Orders(DOMAIN npcs) :
        \A reads \in ClockReadings(Cardinality(DOMAIN npcs)) :
            SameInstant(reads) =>
              /\ forEachUpdate(o1, reads, npcs, p)
                   = forEachUpdate(o2, reads, npcs, p)
              /\ \A i \in DOMAIN npcs :
                    forEachUpdate(o1, reads, npcs, p)[i]
                      = updateAt(npcs[i], p, reads[1])

\* two actors, updated by one updateAll at one instant, have both moved
C11_Witness ==
    /\ lastCall.op = "updateAll"
    /\ Len(lastCall.order) = 2
    /\ SameInstant(lastCall.reads)
    /\ \A i \in DOMAIN npcs :
          /\ npcs[i].position # Pt(0, 0)
          /\ npcs[i].lastUpdateTime = now

\* C12: the magazine never holds fewer than 0 or more than magazineSize
\* rounds, after any interleaving of fire() calls, reload() calls and reload
\* completions.
C12_AmmoWithinMagazine ==
    /\ 0 <= gun.currentAmmo
    /\ gun.currentAmmo <= gun.config.stats.magazineSize

\* a shot, then a reload that has just completed
C12_Witness ==
    /\ lastCall.op = "reloadTimer"
    /\ lastShot # None
    /\ gun.currentAmmo = gun.config.stats.magazineSize

\* C13: fire-rate gate.  A fire() that returns true comes at least
\* 1000 / fireRate ms after the last fire() that returned true, and a fire()
\* called less than 1000 / fireRate ms after it returns false and leaves the
\* ammo as it was.  (fireRate is in tenths: elapsed * fireRate >= 10000.)
C13_FireRateGate ==
    [][(lastCall'.op = "fire" /\ lastShot # None) =>
          /\ lastCall'.result =>
                (now - lastShot[1]) * gun.config.stats.fireRate >= 10000
          /\ (now - lastShot[1]) * gun.config.stats.fireRate < 10000 =>
                /\ ~lastCall'.result
                /\ gun'.currentAmmo = gun.currentAmmo]_allVars

\* a second shot from one magazine, some time after the first
C13_Witness ==
    /\ lastCall.op = "fire"
    /\ lastCall.result
    /\ gun.currentAmmo <= gun.config.stats.magazineSize - 2
    /\ lastShot = Some(now)


\* C14 (scenario B): on a freshly created preset rifle (30 rounds, 8 shots a
\* second), of the fire() calls made at one clock instant the first returns
\* true and every later one, up to the 31st, returns false because of the
\* cooldown gate, without the empty signal, and the ammo ends at 29.
C14_ScenarioB ==
    (/\ lastCall.op = "fire"
     /\ lastCall.burst >= 1
     /\ gun.config = PRESET_GUNS["rifle"])
    => /\ lastCall.result = (lastCall.burst = 1)
       /\ lastCall.signals = IF lastCall.burst = 1 THEN {"onFire"} ELSE {}
       /\ lastCall.burst > 1 => OnCooldown(gun, now)
       /\ gun.currentAmmo = 29
       /\ gun.config.stats.magazineSize = 30
       /\ gun.config.stats.fireRate = 80

\* the 31st call of the burst has been made
C14_Witness ==
    /\ lastCall.op = "fire"
    /\ lastCall.burst = 31
    /\ gun.config = PRESET_GUNS["rifle"]
    /\ gun.currentAmmo = 29

\* C15 as stated: fire() on a weapon with 0 rounds that is not reloading
\* returns false, leaves the ammo at 0 and invokes onEmpty.
C15_EmptySignals ==
    [][(/\ lastCall'.op = "fire"
        /\ gun.currentAmmo = 0
        /\ ~gun.isReloading)
       => /\ ~lastCall'.result
          /\ gun'.currentAmmo = 0
          /\ "onEmpty" \in lastCall'.signals]_allVars

\* C15 amended: fire() on a weapon with 0 rounds that is not reloading
\* returns false and changes nothing; it invokes onEmpty when at least
\* 1000 / fireRate ms have passed since the last shot, and no callback at all
\* when called sooner (the cooldown rejection comes first).
C15_EmptySignalsAfterCooldown ==
    [][(/\ lastCall'.op = "fire"
        /\ gun.currentAmmo = 0
        /\ ~gun.isReloading)
       => /\ ~lastCall'.result
          /\ gun' = gun
          /\ lastCall'.signals =
                IF (now - gun.lastFireTime) * gun.config.stats.fireRate < 10000
                THEN {} ELSE {"onEmpty"}]_allVars

\* the empty click: a call on an empty magazine after the cooldown
C15_Witness ==
    /\ lastCall.op = "fire"
    /\ lastCall.signals = {"onEmpty"}
    /\ gun.currentAmmo = 0
    /\ ~gun.isReloading

\* C16: while isReloading is set a fire() returns false and has no effect:
\* ammo, lastFireTime and isReloading are as before, the scheduled completion
\* is untouched, and neither onFire nor onEmpty is invoked; and the ammo does
\* not change from the start of a reload until its completion runs.
C16_FireWhileReloading ==
    [][/\ (lastCall'.op = "fire" /\ gun.isReloading)
          => /\ ~lastCall'.result
             /\ gun' = gun
             /\ pending' = pending
             /\ lastShot' = lastShot
             /\ lastCall'.signals = {}
       /\ (gun.isReloading /\ lastCall'.op # "reloadTimer")
          => gun'.currentAmmo = gun.currentAmmo]_allVars

\* a fire() that only the reload rejects: rounds left, cooldown over
C16_Witness ==
    /\ lastCall.op = "fire"
    /\ ~lastCall.result
    /\ gun.isReloading
    /\ gun.currentAmmo > 0
    /\ ~OnCooldown(gun, now)

\* C17: a reload that has started completes.  While isReloading is set its
\* completion stays scheduled (nothing cancels it), and when the clock can
\* reach the time it is due, the completion runs and leaves the magazine full
\* and isReloading false, whatever fire() and reload() calls come in between.
C17_ReloadCompletes ==
    /\ [](gun.isReloading => pending # <<>>)
    /\ (gun.isReloading /\ pending # <<>> /\ pending[1].due <= GunHorizon)
         ~> (/\ lastCall.op = "reloadTimer"
             /\ gun.currentAmmo = gun.config.stats.magazineSize
             /\ ~gun.isReloading)

\* a completed reload of a weapon that had been fired, nothing left scheduled
C17_Witness ==
    /\ lastCall.op = "reloadTimer"
    /\ ~gun.isReloading
    /\ pending = <<>>
    /\ gun.currentAmmo = gun.config.stats.magazineSize
    /\ gun.lastFireTime > 0

\* C18: reload() during a reload is a no-op: its promise is resolved at once,
\* onReload is not invoked again, no second completion is scheduled and the
\* scheduled one keeps its time; at most one completion is scheduled at any
\* time.
C18_ReloadInFlightNoOp ==
    /\ [](Len(pending) <= 1)
    /\ [][(lastCall'.op = "reload" /\ gun.isReloading)
            => /\ lastCall'.resolved
               /\ lastCall'.signals = {}
               /\ gun' = gun
               /\ pending' = pending]_allVars

\* a reload() made while another was in flight, some time after it started
C18_Witness ==
    /\ lastCall.op = "reload"
    /\ lastCall.resolved
    /\ gun.isReloading
    /\ Len(pending) = 1
    /\ now > pending[1].due - gun.config.stats.reloadTime

\* the value of stat f that went into the validation: the one passed, or for
\* generated stats that leave f out, the default
RawStat(f) ==
    IF f \in DOMAIN lastCall.stats THEN lastCall.stats[f] ELSE defaultStats[f]

\* got is raw clamped to [lo, hi]: inside the range, raw itself when raw is
\* inside, and the nearer end otherwise
Clamped(raw, got, lo, hi) ==
    /\ lo <= got /\ got <= hi
    /\ (lo <= raw /\ raw <= hi) => got = raw
    /\ raw < lo => got = lo
    /\ raw > hi => got = hi

\* rounds is Math.floor of tenths
IsFloor(tenths, rounds) == 10 * rounds <= tenths /\ tenths < 10 * rounds + 10

\* C19: a weapon made by createFromJSON or createAIGenerated has damage in
\* [1, 200], fireRate in [0.1, 20], recoil and spread in [0, 1], reloadTime in
\* [500, 5000], each the value passed when that was inside the range;
\* magazineSize is a whole number in [1, 100], the floor of the value passed
\* clamped to that range; and the ammo starts at that magazineSize.
C19_ConfigClamped ==
    lastCall.op \in {"createFromJSON", "createAIGenerated"} =>
      LET stats == gun.config.stats
      IN  /\ Clamped(RawStat("damage"), stats.damage, 1, 200)
          /\ Clamped(RawStat("fireRate"), stats.fireRate, 1, 200)
          /\ Clamped(RawStat("recoil"), stats.recoil, 0, 100)
          /\ Clamped(RawStat("spread"), stats.spread, 0, 100)
          /\ Clamped(RawStat("reloadTime"), stats.reloadTime, 500, 5000)
          /\ \E rounds \in -1..200 :
                /\ IsFloor(RawStat("magazineSize"), rounds)
                /\ Clamped(rounds, stats.magazineSize, 1, 100)
          /\ gun.currentAmmo = stats.magazineSize
          /\ ~gun.isReloading

\* a JSON config with 2.5 rounds and every other stat inside its range
C19_Witness ==
    /\ lastCall.op = "createFromJSON"
    /\ lastCall.stats.magazineSize = 25
    /\ gun.config.stats = Stats(40, 80, 30, 10, 2, 500)
    /\ gun.currentAmmo = 2

\* health within [0, maxHealth] and ammo within [0, maxAmmo]
InBounds(state) ==
    /\ 0 <= state.health /\ state.health <= state.maxHealth
    /\ 0 <= state.ammo /\ state.ammo <= state.maxAmmo

\* the amount of a TAKE_DAMAGE or HEAL intent is not negative
NonNegativeAmount(action) ==
    action.type \in {"TAKE_DAMAGE", "HEAL"} => action.payload >= 0

\* C20 as stated: after any sequence of dispatched intents from the initial
\* snapshot, 0 <= health <= maxHealth and 0 <= ammo <= maxAmmo.
C20_HealthAndAmmoInvariant == InBounds(game)

\* C20 amended: an intent whose TAKE_DAMAGE or HEAL amount is not negative,
\* dispatched on a snapshot with 0 <= health <= maxHealth and
\* 0 <= ammo <= maxAmmo, gives a snapshot within the same bounds (the initial
\* snapshot is within them); SHOOT with ammo 0 leaves the ammo at 0.
C20_BoundsKeptByNonNegativeAmounts ==
    /\ InBounds(initialState)
    /\ [][(/\ lastCall'.op = "dispatch"
           /\ NonNegativeAmount(lastCall'.action)
           /\ InBounds(game))
          => /\ InBounds(game')
             /\ (lastCall'.action.type = "SHOOT" /\ game.ammo = 0)
                   => game' = game]_allVars

\* the magazine shot empty, then a hit for more than the health left
C20_Witness ==
    /\ lastCall.op = "dispatch"
    /\ lastCall.action = IntentWith("TAKE_DAMAGE", 150)
    /\ game.health = 0
    /\ game.ammo = 0

\* C21 as stated: the score never decreases across a dispatched intent other
\* than RESET, ADD_SCORE(n) and the COMPLETE_MISSION of any accepted mission
\* included.
C21_ScoreNeverDecreases ==
    [][(lastCall'.op = "dispatch" /\ lastCall'.action.type # "RESET")
          => game'.score >= game.score]_allVars

\* C22: RESET gives the initial snapshot (health 100 of 100, ammo 30 of 30,
\* level 1, position (0, 0), no mission, the rifle, score 0) from every state
\* that earlier intents can lead to.
C22_ResetGivesInitialSnapshot ==
    (lastCall.op = "dispatch" /\ lastCall.action.type = "RESET")
    => game = [health |-> 100, maxHealth |-> 100, ammo |-> 30, maxAmmo |-> 30,
               playerLevel |-> 1, position |-> [x |-> 0, y |-> 0],
               currentMission |-> <<>>, equippedWeapon |-> "rifle",
               score |-> 0]

\* a RESET on a snapshot that differed in every field an intent can change
C22_Witness ==
    /\ lastCall.op = "dispatch"
    /\ lastCall.action.type = "RESET"
    /\ lastCall.from.health # 100
    /\ lastCall.from.ammo # 30
    /\ lastCall.from.position # Pt(0, 0)
    /\ lastCall.from.currentMission # None
    /\ lastCall.from.equippedWeapon # "rifle"
    /\ lastCall.from.score # 0

\* C23: COMPLETE_MISSION dispatched on a snapshot without a mission returns
\* that snapshot, every field as it was.
C23_CompleteWithoutMissionNoOp ==
    [][(/\ lastCall'.op = "dispatch"
        /\ lastCall'.action.type = "COMPLETE_MISSION"
        /\ game.currentMission = None)
       => game' = game]_allVars

\* COMPLETE_MISSION dispatched with no mission, on a snapshot that intents
\* had changed
C23_Witness ==
    /\ lastCall.op = "dispatch"
    /\ lastCall.action.type = "COMPLETE_MISSION"
    /\ lastCall.completed = None
    /\ game.score # 0
    /\ game.ammo # 30

\* C24 (scenario D): from any state, SET_MISSION(m) and then COMPLETE_MISSION
\* raise the score by exactly m.reward, leave no mission and change nothing
\* else; a second COMPLETE_MISSION right after changes nothing more.  Every
\* COMPLETE_MISSION that is dispatched behaves so.
C24_ScenarioD ==
    /\ [](\A m \in Missions :
            LET accepted == gameReducer(game, IntentWith("SET_MISSION", m))
                done == gameReducer(accepted, Intent("COMPLETE_MISSION"))
                again == gameReducer(done, Intent("COMPLETE_MISSION"))
            IN  /\ accepted = [game EXCEPT !.currentMission = Some(m)]
                /\ done = [game EXCEPT !.score = game.score + m.reward,
                                       !.currentMission = None]
                /\ again = done)
    /\ [][(/\ lastCall'.op = "dispatch"
           /\ lastCall'.action.type = "COMPLETE_MISSION"
           /\ game.currentMission # None)
          => game' = [game EXCEPT
                         !.score = game.score + game.currentMission[1].reward,
                         !.currentMission = None]]_allVars

\* a mission worth 100 has been completed from score 0
C24_Witness ==
    /\ lastCall.op = "dispatch"
    /\ lastCall.action.type = "COMPLETE_MISSION"
    /\ lastCall.completed = Some([id |-> "m1", reward |-> 100])
    /\ game.score = 100
    /\ game.currentMission = None

FallbackResults ==
    {getRandomFallbackMission(l, p, c) :
        l \in PlayerLevels, p \in Picks, c \in 0 .. MaxMissionTicks}

\* a payload that is absent, or a mission lacking one of its fields
MalformedOrAbsent(response) ==
    \/ response.kind \in {"rejects", "notJson"}
    \/ response.isNull
    \/ response.mission.kind \in {"absent", "null"}
    \/ response.mission.title = None
    \/ response.mission.objective = None
    \/ response.mission.reward = None
    \/ response.mission.targetNPC = None

\* C26: generateMission always resolves to a Mission, and on a failed
\* request, an absent mission payload or a mission payload lacking title,
\* objective, reward or targetNPC the result is a fallback mission of the
\* local table of 5 entries.
C26_FallbackOnBadPayload ==
    /\ Len(FALLBACK_MISSIONS) = 5
    /\ lastCall.op = "generateMission" =>
          /\ lastCall.result.settled = "resolved"
          /\ MalformedOrAbsent(lastCall.response)
                => lastCall.result.value \in FallbackResults

\* C27: every fallback mission has the reward round(baseReward x (1 +
\* (playerLevel - 1) x 0.2)), the nearest integer with a half rounded up,
\* and no two fallback missions generated in a run have the same id.
C27_FallbackRewardAndUniqueId ==
    /\ \A l \in PlayerLevels, p \in Picks :
          LET r == getRandomFallbackMission(l, p, now).reward[1]
              base == FALLBACK_MISSIONS[p + 1].reward
          IN  /\ 10 * r - 5 <= 2 * base * (4 + l)
              /\ 2 * base * (4 + l) < 10 * r + 5
    /\ \A i \in 1 .. Len(issued) : \A j \in 1 .. Len(issued) :
          i # j => issued[i] # issued[j]

\* C28: detection is checked before movement.  On the update in which a
\* patrolling actor has the player within detectionRange it becomes
\* aggressive and keeps its position and its patrol index; on the update in
\* which an aggressive actor de-escalates it keeps its position.
C28_DetectionBeforeMovement ==
    [][\A id \in DOMAIN npcs \cap DOMAIN npcs' :
          UpdatedBy(id) =>
            /\ (/\ npcs[id].state = "patrol"
                /\ WithinRange(getDistanceTo(npcs[id], lastCall'.playerPosition),
                               npcs[id].detectionRange))
                  => /\ npcs'[id].state = "aggressive"
                     /\ npcs'[id].position = npcs[id].position
                     /\ npcs'[id].currentPatrolIndex = npcs[id].currentPatrolIndex
            /\ (npcs[id].state = "aggressive" /\ npcs'[id].state # "aggressive")
                  => npcs'[id].position = npcs[id].position]_allVars

\* a guard that had left for its second waypoint detects the player on an
\* update for which time has passed
C28_Witness ==
    /\ lastCall.op = "update"
    /\ lastCall.from = "patrol"
    /\ lastCall.id \in DOMAIN npcs
    /\ npcs[lastCall.id].state = "aggressive"
    /\ npcs[lastCall.id].currentPatrolIndex = 1
    /\ npcs[lastCall.id].lastUpdateTime > 0
    /\ HasRoute(npcs[lastCall.id])
    /\ npcs[lastCall.id].position # npcs[lastCall.id].patrolPoints[1][2]

\* C29: for an actor with a non-empty patrol route the patrol index is
\* always a valid index of the route; an update of a patrolling actor that
\* does not detect the player and stands within 5 units of the current
\* waypoint advances the index by one modulo the route length, and no other
\* operation changes it: not a walk, not a detection, not a de-escalation
\* from aggressive to patrol, not takeDamage or heal.
C29_PatrolIndex ==
    /\ [](\A id \in DOMAIN npcs :
            HasRoute(npcs[id]) =>
               /\ 0 <= npcs[id].currentPatrolIndex
               /\ npcs[id].currentPatrolIndex < Len(npcs[id].patrolPoints[1]))
    /\ [][\A id \in DOMAIN npcs \cap DOMAIN npcs' :
            HasRoute(npcs[id]) =>
              LET route == npcs[id].patrolPoints[1]
                  index == npcs[id].currentPatrolIndex
                  advances ==
                     /\ UpdatedBy(id)
                     /\ npcs[id].state = "patrol"
                     /\ ~WithinRange(getDistanceTo(npcs[id],
                                                   lastCall'.playerPosition),
                                     npcs[id].detectionRange)
                     /\ getDistanceTo(npcs[id], route[index + 1]) < 25
              IN  /\ advances =>
                       npcs'[id].currentPatrolIndex = (index + 1) % Len(route)
                  /\ ~advances => npcs'[id].currentPatrolIndex = index
                  /\ (npcs[id].state = "aggressive"
                        /\ npcs'[id].state = "patrol")
                       => npcs'[id].currentPatrolIndex = index]_allVars

\* the guard has just wrapped from the last waypoint of a route of three to
\* the first
C29_Witness ==
    /\ lastCall.op = "update"
    /\ lastCall.from = "patrol"
    /\ npcs["g1"].state = "patrol"
    /\ Len(npcs["g1"].patrolPoints[1]) = 3
    /\ npcs["g1"].currentPatrolIndex = 0
    /\ getDistanceTo(npcs["g1"], npcs["g1"].patrolPoints[1][3]) < 25

\* the guard stands within 5 units of waypoint k while heading for it
AtWaypoint(id, k) ==
    /\ k <= Len(npcs[id].patrolPoints[1])
    /\ npcs[id].state = "patrol"
    /\ npcs[id].currentPatrolIndex = k - 1
    /\ getDistanceTo(npcs[id], npcs[id].patrolPoints[1][k]) < 25

\* C30: a patrolling guard with a non-empty route and positive speed, updated
\* again and again with positive elapsed time while the player stays outside
\* detectionRange, comes within 5 units of every waypoint of its route
\* infinitely often, and from each waypoint goes on to the next one in route
\* order.
C30_PatrolProgress ==
    \A k \in 1 .. 3 :
       /\ (k <= Len(npcs["g1"].patrolPoints[1])) => []<>AtWaypoint("g1", k)
       /\ AtWaypoint("g1", k) ~>
             AtWaypoint("g1", (k % Len(npcs["g1"].patrolPoints[1])) + 1)

\* the guard back at the first waypoint of its route of three after a round
C30_Witness ==
    /\ lastCall.op = "update"
    /\ Len(npcs["g1"].patrolPoints[1]) = 3
    /\ AtWaypoint("g1", 1)
    /\ npcs["g1"].position # Pt(0, 0)

Abs(n) == IF n < 0 THEN 0 - n ELSE n

\* C31: movement never overshoots.  A call of moveTowards with non-negative
\* elapsed time leaves the position alone when the actor stands on the
\* target (and when no time has passed), puts the actor on the target when
\* speed x deltaSeconds x 60 is at least the distance, and otherwise moves it
\* by that length on the straight line to the target (to the integer
\* rounding of the coordinates); the distance to the target never grows and
\* the actor never passes the target.
C31_NoOvershoot ==
    [][\A id \in DOMAIN npcs \cap DOMAIN npcs' :
          lastCall'.op = "moveTowards" /\ lastCall'.id = id =>
            LET target == lastCall'.target
                before == npcs[id].position
                after == npcs'[id].position
                dx == target.x - before.x
                dy == target.y - before.y
                sx == after.x - before.x
                sy == after.y - before.y
                d2 == dx * dx + dy * dy
                moveDistance ==
                    (npcs[id].speed * lastCall'.deltaTime * 60) \div 2000
            IN  /\ d2 = 0 => after = before
                /\ moveDistance = 0 => after = before
                /\ moveDistance * moveDistance >= d2 => after = target
                /\ getDistanceTo(npcs'[id], target) <= d2
                /\ sx * dx >= 0 /\ sy * dy >= 0
                /\ Abs(sx) <= Abs(dx) /\ Abs(sy) <= Abs(dy)
                /\ Abs(dx * sy - dy * sx) <= Abs(dx) + Abs(dy)
                /\ moveDistance * moveDistance < d2 =>
                      /\ sx * sx + sy * sy
                            <= (moveDistance + 1) * (moveDistance + 1)
                      /\ (moveDistance >= 2) =>
                            (moveDistance - 2) * (moveDistance - 2)
                               <= sx * sx + sy * sy]_allVars

\* a step longer than the way left has put the actor on a target it was
\* not standing on, off the axes
C31_Witness ==
    /\ lastCall.op = "moveTowards"
    /\ lastCall.deltaTime = 500
    /\ lastCall.target = Pt(30, 40)
    /\ npcs[lastCall.id].position = Pt(30, 40)
    /\ npcs[lastCall.id].speed = 3

\* actor id is within attackRange of the player
InAttackRange(id) ==
    WithinRange(getDistanceTo(npcs[id], PursuitPlayer), npcs[id].attackRange)

\* C32: an aggressive actor with positive speed, the player standing still
\* within 1.5 x detectionRange and every update coming after positive
\* elapsed time, stays aggressive and eventually is within attackRange of
\* the player, for good; an update of an actor already within attackRange
\* leaves its position alone.
C32_Pursuit ==
    /\ [](\A id \in DOMAIN npcs : npcs[id].state = "aggressive")
    /\ <>[](\A id \in DOMAIN npcs : InAttackRange(id))
    /\ [][\A id \in DOMAIN npcs \cap DOMAIN npcs' :
             (UpdatedBy(id) /\ InAttackRange(id))
                => npcs'[id].position = npcs[id].position]_allVars

\* the actor that started on the edge of the band, off the axes, has walked
\* into attackRange
C32_Witness ==
    /\ lastCall.op = "update"
    /\ npcs["e1"].state = "aggressive"
    /\ InAttackRange("e1")
    /\ npcs["e1"].position.x < 0
    /\ npcs["e1"].position.y > 0

\* C33: removeNPC(id) returns true exactly when id was a key of the
\* registry; after it no query lists an actor of that id and every other
\* entry is as before; updateAll updates the entries of the registry and
\* nothing else, so it neither brings a removed id back nor changes the set
\* of keys; and every key maps to the actor whose own id is the key.
C33_Remove ==
    /\ [](\A key \in DOMAIN npcs : npcs[key].id = key)
    /\ [][lastCall'.op = "removeNPC" =>
            /\ lastCall'.ret = (lastCall'.id \in DOMAIN npcs)
            /\ DOMAIN npcs' = DOMAIN npcs \ {lastCall'.id}
            /\ \A other \in DOMAIN npcs' : npcs'[other] = npcs[other]
            /\ \A s \in getAllNPCs' : s.value.id # lastCall'.id
            /\ \A s \in getActiveNPCs' : s.value.id # lastCall'.id
            /\ \A s \in getAggressiveNPCs' : s.value.id # lastCall'.id
            /\ \A q \in QueryPoints, r \in Radii :
                  \A s \in getNPCsInRange(q, r)' : s.value.id # lastCall'.id]_allVars
    /\ [][lastCall'.op = "updateAll" =>
            /\ DOMAIN npcs' = DOMAIN npcs
            /\ \A id \in Ids \ DOMAIN npcs :
                  \A s \in getAllNPCs' : s.value.id # id]_allVars

\* the hostile that had turned aggressive was removed and the guard stays
C33_Witness ==
    /\ lastCall.op = "removeNPC"
    /\ lastCall.id = "e1"
    /\ lastCall.ret
    /\ DOMAIN npcs = {"g1"}
    /\ npcs["g1"].state = "aggressive"

\* C34: each call of the squad constructor adds exactly 3 new actors to the
\* registry: the number of entries grows by 3, every actor that was there is
\* still there and unchanged, also when squads are created at one clock
\* instant, and the new actors are idle and on the circle of radius 50
\* around the centre (to the rounding of the coordinates).
C34_SquadAddsThree ==
    [][lastCall'.op = "createEnemySquad" =>
          /\ Cardinality(DOMAIN npcs') = Cardinality(DOMAIN npcs) + 3
          /\ \A id \in DOMAIN npcs :
                id \in DOMAIN npcs' /\ npcs'[id] = npcs[id]
          /\ \A id \in DOMAIN npcs' \ DOMAIN npcs :
                /\ npcs'[id].state = "idle"
                /\ getDistanceTo(npcs'[id], lastCall'.centerPosition) >= 49 * 49
                /\ getDistanceTo(npcs'[id], lastCall'.centerPosition) <= 51 * 51]_allVars

\* the actor with its health put back to maxHealth
Revived(npc) == [npc EXCEPT !.health = npc.maxHealth]

\* C35: death does not freeze an actor.  update() on an actor with health 0
\* does to its state, position, patrol index and update time exactly what it
\* does to the same actor alive, and leaves the health at 0; a dead idle
\* actor updated with the player within detectionRange turns aggressive; a
\* dead actor cannot attack and is in the list of all actors but not in the
\* alive and aggressive ones.
C35_DeadActorsStillUpdate ==
    \A id \in DOMAIN npcs :
       npcs[id].health = 0 =>
          /\ \A p \in PlayerPositions :
                /\ update(npcs[id], p)
                      = [update(Revived(npcs[id]), p) EXCEPT !.health = 0]
                /\ (/\ npcs[id].state = "idle"
                    /\ WithinRange(getDistanceTo(npcs[id], p),
                                   npcs[id].detectionRange))
                      => update(npcs[id], p).state = "aggressive"
          /\ ~canAttack(npcs[id])
          /\ getNPC(npcs[id]) \in getAllNPCs
          /\ getNPC(npcs[id]) \notin getActiveNPCs
          /\ getNPC(npcs[id]) \notin getAggressiveNPCs

\* a dead actor that had calmed down to idle has been updated with the
\* player in range and is aggressive again
C35_Witness ==
    /\ lastCall.op = "update"
    /\ lastCall.from = "idle"
    /\ lastCall.id \in DOMAIN npcs
    /\ npcs[lastCall.id].health = 0
    /\ npcs[lastCall.id].state = "aggressive"

C37_ReloadAlwaysStarts ==
    /\ [](pending # <<>> =>
            /\ gun.isReloading
            /\ fire(gun, now) = FireOutcome(gun, FALSE, {}))
    /\ [][(lastCall'.op = "reload" /\ ~gun.isReloading) =>
            /\ gun' = [gun EXCEPT !.isReloading = TRUE]
            /\ lastCall'.signals = {"onReload"}
            /\ ~lastCall'.resolved
            /\ pending' = Append(pending,
                                 [due |-> now + gun.config.stats.reloadTime])]_allVars
    /\ [][(gun.isReloading /\ ~gun'.isReloading) =>
            /\ lastCall'.op = "reloadTimer"
            /\ pending # <<>>
            /\ now >= pending[1].due]_allVars
    /\ [][(lastCall'.op = "fire" /\ pending # <<>>) =>
            /\ ~lastCall'.result
            /\ lastCall'.signals = {}
            /\ gun' = gun]_allVars

\* a reload was started on a full magazine that had never been fired, and a
\* fire() during it was rejected
C37_Witness ==
    /\ lastCall.op = "fire"
    /\ ~lastCall.result
    /\ gun.isReloading
    /\ pending # <<>>
    /\ gun.currentAmmo = gun.config.stats.magazineSize
    /\ lastShot = None

\* the fields an intent of the type may change
Effect(type) ==
    CASE type \in {"SHOOT", "RELOAD"} -> {"ammo"}
      [] type \in {"TAKE_DAMAGE", "HEAL"} -> {"health"}
      [] type = "MOVE" -> {"position"}
      [] type = "SET_MISSION" -> {"currentMission"}
      [] type = "COMPLETE_MISSION" -> {"score", "currentMission"}
      [] type = "EQUIP_WEAPON" -> {"equippedWeapon"}
      [] type = "ADD_SCORE" -> {"score"}
      [] type = "RESET" -> {"health", "ammo", "position", "currentMission",
                            "equippedWeapon", "score"}
      [] OTHER -> {}

\* C38: every intent changes only the fields of its effect.  maxHealth,
\* maxAmmo and playerLevel keep their initial values 100, 30 and 1 after any
\* sequence of intents; EQUIP_WEAPON changes only equippedWeapon; MOVE
\* changes only position, by adding the payload to it; SET_MISSION puts its
\* mission in the place of any active one and leaves the score alone.
C38_FrameEffects ==
    /\ game.maxHealth = 100
    /\ game.maxAmmo = 30
    /\ game.playerLevel = 1
    /\ \A a \in Intents :
          LET next == gameReducer(game, a)
          IN  /\ \A f \in DOMAIN game \ Effect(a.type) : next[f] = game[f]
              /\ a.type = "MOVE" =>
                    next.position = Pt(game.position.x + a.payload.x,
                                       game.position.y + a.payload.y)
              /\ a.type = "EQUIP_WEAPON" => next.equippedWeapon = a.payload
              /\ a.type = "SET_MISSION" => next.currentMission = Some(a.payload)

\* the second mission was set on a snapshot that had moved, scored and
\* changed weapon, with less than a full magazine
C38_Witness ==
    /\ lastCall.op = "dispatch"
    /\ lastCall.action.type = "SET_MISSION"
    /\ game.currentMission = Some(lastCall.action.payload)
    /\ game.position = Pt(1, 0)
    /\ game.score = 50
    /\ game.equippedWeapon = "pistol"
    /\ game.ammo < game.maxAmmo

\* C39: in the game-world screen the ammo of the player state, which the HUD
\* shows, equals the currentAmmo of the screen's rifle controller after any
\* sequence of presses of the shoot and reload buttons, and a shot the
\* reducer counted is a shot the controller fired.
C39_AmmoCountsAgree ==
    /\ game.ammo = gun.currentAmmo
    /\ (lastCall.op = "handleShoot" /\ lastCall.counted) => lastCall.fired
====
